---- MODULE Spec2Model ----
(***************************************************************************)
(* Budget / actuals reconciliation pipeline of sw-ai-chat-budget.          *)
(*                                                                         *)
(* Strings are sequences of one-character strings, so that trimming,       *)
(* case conversion, splitting and integer parsing are computed the way     *)
(* the TypeScript code computes them.  JavaScript numbers that come out    *)
(* of a division are exact rationals [kind, num, den] with the special     *)
(* values NaN, Infinity and -Infinity; hours are integers.                 *)
(***************************************************************************)
EXTENDS Integers, Sequences, FiniteSets, TLC

VARIABLES
    pc,             \* position of the invocation: idle, called, running
    caller,         \* "tool" (getExecutiveSummary.execute) or "script" (direct call)
    period,         \* the period argument
    team,           \* the tool's team argument (Undefined when absent)
    teamFilter,     \* the teamFilter argument of getExecutiveSummaryAnalysis
    configOk,       \* the four DATABASE_* environment variables are set
    csv,            \* the budget file as found by readCsvFile
    actPeriodCode,  \* periodCode computed by fetchBilledHoursData
    budPeriodCode,  \* periodCode computed by getBudgetDataForPeriod
    dbPc,           \* position of executeQuery: connect, query, close, done
    connOpen,       \* the connection pool of executeQuery is open
    opens,          \* connections acquired by this invocation
    queries,        \* queries issued by this invocation
    closes,         \* close() calls of this invocation
    pending,        \* outcome executeQuery holds while its finally block runs
    actuals,        \* promise of fetchBilledHoursData
    budget,         \* promise of getBudgetDataForPeriod
    reconcile,      \* promise of getExecutiveSummaryAnalysis
    toolResult,     \* value returned by the tool's execute
    util,           \* utility function a direct caller applied, "none" before
    utilArg,        \* its argument
    utilRes         \* its outcome

vars == <<pc, caller, period, team, teamFilter, configOk, csv,
          actPeriodCode, budPeriodCode, dbPc, connOpen, opens, queries, closes,
          pending, actuals, budget, reconcile, toolResult,
          util, utilArg, utilRes>>

\* the variables of an invocation of the analysis
callVars == <<pc, caller, period, team, teamFilter, configOk, csv,
              actPeriodCode, budPeriodCode, dbPc, connOpen, opens, queries, closes,
              pending, actuals, budget, reconcile, toolResult>>

\* the variables of a direct call of a utility function
utilVars == <<util, utilArg, utilRes>>

----------------------------------------------------------------------------
(* Bounds of the model *)

MaxDbRows == 2      \* rows in the recordset returned by the actuals query
MaxCsvRows == 2     \* data rows in the budget file
MaxTicks == 1       \* months the system clock may advance while the file is read

----------------------------------------------------------------------------
(* Characters and strings *)

LowerLetters == <<"a","b","c","d","e","f","g","h","i","j","k","l","m",
                  "n","o","p","q","r","s","t","u","v","w","x","y","z">>
UpperLetters == <<"A","B","C","D","E","F","G","H","I","J","K","L","M",
                  "N","O","P","Q","R","S","T","U","V","W","X","Y","Z">>
Digits == <<"0","1","2","3","4","5","6","7","8","9">>
Whitespace == {" ", "\t", "\r", "\n"}

Undefined == <<"<undefined>">>    \* the JavaScript value undefined

IsUpperLetter(c) == \E i \in 1..26 : UpperLetters[i] = c
IsDigit(c) == \E i \in 1..10 : Digits[i] = c
DigitValue(c) == (CHOOSE i \in 1..10 : Digits[i] = c) - 1

ToUpperChar(c) ==
    IF \E i \in 1..26 : LowerLetters[i] = c
    THEN UpperLetters[CHOOSE i \in 1..26 : LowerLetters[i] = c]
    ELSE c

ToLowerChar(c) ==
    IF \E i \in 1..26 : UpperLetters[i] = c
    THEN LowerLetters[CHOOSE i \in 1..26 : UpperLetters[i] = c]
    ELSE c

\* String.prototype.toUpperCase / toLowerCase
ToUpperCase(s) == [i \in 1..Len(s) |-> ToUpperChar(s[i])]
ToLowerCase(s) == [i \in 1..Len(s) |-> ToLowerChar(s[i])]

\* String.prototype.trim
Trim(s) ==
    LET keep == {i \in 1..Len(s) : s[i] \notin Whitespace}
    IN  IF keep = {} THEN <<>>
        ELSE SubSeq(s, CHOOSE i \in keep : \A j \in keep : i <= j,
                       CHOOSE i \in keep : \A j \in keep : i >= j)

\* String.prototype.indexOf for one character, 1-based; 0 when absent
IndexOf(s, c) ==
    IF \E i \in 1..Len(s) : s[i] = c
    THEN CHOOSE i \in 1..Len(s) : s[i] = c /\ \A j \in 1..(i - 1) : s[j] # c
    ELSE 0

\* String.prototype.split(/\s+/)
RECURSIVE SplitWs(_)
SplitWs(s) ==
    LET ws == {i \in 1..Len(s) : s[i] \in Whitespace}
    IN  IF ws = {} THEN <<s>>
        ELSE LET first == CHOOSE i \in ws : \A j \in ws : i <= j
                 after == {i \in (first + 1)..Len(s) : s[i] \notin Whitespace}
                 next  == IF after = {} THEN Len(s) + 1
                          ELSE CHOOSE i \in after : \A j \in after : i <= j
             IN  <<SubSeq(s, 1, first - 1)>> \o SplitWs(SubSeq(s, next, Len(s)))

AllDigits(s) == \A i \in 1..Len(s) : IsDigit(s[i])

\* value of a string of decimal digits
RECURSIVE DigitsToInt(_)
DigitsToInt(s) ==
    IF s = <<>> THEN 0
    ELSE 10 * DigitsToInt(SubSeq(s, 1, Len(s) - 1)) + DigitValue(s[Len(s)])

\* Number -> string, for a natural number
RECURSIVE IntToDigits(_)
IntToDigits(n) ==
    IF n < 10 THEN <<Digits[n + 1]>>
    ELSE IntToDigits(n \div 10) \o <<Digits[(n % 10) + 1]>>

\* String(n).padStart(2, '0')
PadStart2(s) == IF Len(s) < 2 THEN <<"0">> \o s ELSE s

----------------------------------------------------------------------------
(* Outcome of a function that may throw *)

Ok(v) == [ok |-> TRUE, val |-> v, err |-> <<>>]
Throw(e) == [ok |-> FALSE, val |-> <<>>, err |-> e]
\* throw new Error(`<prefix>: ${error.message}`)
Wrap(prefix, e) == <<prefix>> \o e
\* try { return r } catch (error) { throw new Error(`<prefix>: ...`) }
Rethrow(prefix, r) == IF r.ok THEN r ELSE Throw(Wrap(prefix, r.err))

Range(f) == {f[i] : i \in DOMAIN f}
Min(S) == CHOOSE i \in S : \A j \in S : i <= j

----------------------------------------------------------------------------
(* Identifier normalizers *)

MonthNames == <<
    <<"j","a","n","u","a","r","y">>, <<"f","e","b","r","u","a","r","y">>,
    <<"m","a","r","c","h">>, <<"a","p","r","i","l">>, <<"m","a","y">>,
    <<"j","u","n","e">>, <<"j","u","l","y">>, <<"a","u","g","u","s","t">>,
    <<"s","e","p","t","e","m","b","e","r">>, <<"o","c","t","o","b","e","r">>,
    <<"n","o","v","e","m","b","e","r">>, <<"d","e","c","e","m","b","e","r">> >>

\* monthMap[monthName]: the two-digit code, Undefined when the key is absent.  A
\* lower-case key inherited from Object.prototype yields that inherited value,
\* which is truthy and is rendered by the template literal.
monthMap(name) ==
    IF \E i \in 1..12 : MonthNames[i] = name
    THEN PadStart2(IntToDigits(CHOOSE i \in 1..12 : MonthNames[i] = name))
    ELSE IF name = <<"c","o","n","s","t","r","u","c","t","o","r">>
    THEN <<"f","u","n","c","t","i","o","n"," ","O","b","j","e","c","t","(",")",
           " ","{"," ","[","n","a","t","i","v","e"," ","c","o","d","e","]"," ","}">>
    ELSE IF name = <<"_","_","p","r","o","t","o","_","_">>
    THEN <<"[","o","b","j","e","c","t"," ","O","b","j","e","c","t","]">>
    ELSE Undefined

\* `${currentYear}${currentMonth}` of new Date()
CurrentMonthCode(clock) ==
    IntToDigits(clock.year) \o PadStart2(IntToDigits(clock.month))

\* the "Month Year" branch and the fallback, for parts = period.toLowerCase().trim().split(/\s+/)
PeriodFromParts(parts, clock) ==
    IF Len(parts) = 2 /\ Len(parts[2]) = 4 /\ AllDigits(parts[2])
    THEN (IF monthMap(parts[1]) # Undefined
          THEN parts[2] \o monthMap(parts[1])
          ELSE CurrentMonthCode(clock))
    ELSE CurrentMonthCode(clock)

convertPeriodToCode(p, clock) ==
    IF Len(p) = 6 /\ AllDigits(p) THEN p
    ELSE PeriodFromParts(SplitWs(Trim(ToLowerCase(p))), clock)

\* extractInitials from the hyphen on, for trimmed = databaseName.trim()
InitialsBefore(trimmed, hyphenIndex) ==
    IF hyphenIndex = 0
    THEN Throw(<<"Invalid database name format: missing hyphen">>)
    ELSE IF Trim(SubSeq(trimmed, 1, hyphenIndex - 1)) = <<>>
    THEN Throw(<<"Invalid database name format: no initials found">>)
    ELSE Ok(ToUpperCase(Trim(SubSeq(trimmed, 1, hyphenIndex - 1))))

InitialsOfTrimmed(trimmed) == InitialsBefore(trimmed, IndexOf(trimmed, "-"))

extractInitials(databaseName) ==
    IF databaseName = <<>> THEN Throw(<<"Invalid database name: must be a non-empty string">>)
    ELSE InitialsOfTrimmed(Trim(databaseName))

\* extractFullName from the hyphen on, for trimmed = databaseName.trim()
FullNameAfter(trimmed, hyphenIndex) ==
    IF hyphenIndex = 0 THEN Throw(<<"Invalid database name format: missing hyphen">>)
    ELSE IF Trim(SubSeq(trimmed, hyphenIndex + 1, Len(trimmed))) = <<>>
    THEN Throw(<<"Invalid database name format: no full name found">>)
    ELSE Ok(Trim(SubSeq(trimmed, hyphenIndex + 1, Len(trimmed))))

FullNameOfTrimmed(trimmed) == FullNameAfter(trimmed, IndexOf(trimmed, "-"))

extractFullName(databaseName) ==
    IF databaseName = <<>> THEN Throw(<<"Invalid database name: must be a non-empty string">>)
    ELSE FullNameOfTrimmed(Trim(databaseName))

formatEmployeeNameForDatabase(initials) ==
    IF initials = <<>> THEN Throw(<<"Invalid initials: must be a non-empty string">>)
    ELSE Ok(ToUpperCase(Trim(initials)))

\* String.prototype.split(' ')
RECURSIVE SplitOnSpace(_)
SplitOnSpace(s) ==
    IF IndexOf(s, " ") = 0 THEN <<s>>
    ELSE <<SubSeq(s, 1, IndexOf(s, " ") - 1)>>
            \o SplitOnSpace(SubSeq(s, IndexOf(s, " ") + 1, Len(s)))

\* Array.prototype.join(' ')
RECURSIVE JoinWithSpace(_)
JoinWithSpace(words) ==
    IF Len(words) = 1 THEN words[1]
    ELSE words[1] \o <<" ">> \o JoinWithSpace(Tail(words))

\* the word with its first letter kept and the rest not lowered
CapitalizeWord_KeepsRest(word) ==
    IF word = <<>> THEN <<>>
    ELSE <<ToUpperChar(word[1])>> \o Tail(word)

\* word.charAt(0).toUpperCase() + word.slice(1).toLowerCase()
CapitalizeWord(word) ==
    IF word = <<>> THEN <<>>
    ELSE <<ToUpperChar(word[1])>> \o ToLowerCase(Tail(word))

CapitalizeWords(words) == [i \in 1..Len(words) |-> CapitalizeWord(words[i])]

formatEmployeeNameForDisplay(fullName) ==
    IF fullName = <<>> THEN Throw(<<"Invalid full name: must be a non-empty string">>)
    ELSE Ok(JoinWithSpace(CapitalizeWords(SplitOnSpace(Trim(fullName)))))

\* the object literal of createEmployeeMappingFromDatabase
MappingOf(initials, fullName) ==
    IF ~initials.ok THEN Throw(initials.err)
    ELSE IF ~fullName.ok THEN Throw(fullName.err)
    ELSE Ok([initials |-> initials.val, fullName |-> fullName.val])

\* formatEmployeeNameForDatabase(initials) and formatEmployeeNameForDisplay(fullName)
MappingFrom(initials, fullName) ==
    IF ~initials.ok THEN Throw(initials.err)
    ELSE IF ~fullName.ok THEN Throw(fullName.err)
    ELSE MappingOf(formatEmployeeNameForDatabase(initials.val),
                   formatEmployeeNameForDisplay(fullName.val))

createEmployeeMappingFromDatabase(databaseName) ==
    Rethrow("Failed to create employee mapping",
            MappingFrom(extractInitials(databaseName), extractFullName(databaseName)))

ARABIC_TO_ROMAN == <<
    <<"I">>, <<"I","I">>, <<"I","I","I">>, <<"I","V">>, <<"V">>,
    <<"V","I">>, <<"V","I","I">>, <<"V","I","I","I">>, <<"I","X">>, <<"X">>,
    <<"X","I">>, <<"X","I","I">>, <<"X","I","I","I">>, <<"X","I","V">>, <<"X","V">>,
    <<"X","V","I">>, <<"X","V","I","I">>, <<"X","V","I","I","I">>, <<"X","I","X">>,
    <<"X","X">> >>

\* the conversion without the upper limit of its range check
convertToRoman_Clamped(num) ==
    IF num < 1
    THEN Throw(<<"Arabic number is not supported. Must be an integer between 1 and 20.">>)
    ELSE Ok(ARABIC_TO_ROMAN[IF num > 20 THEN 20 ELSE num])

convertToRoman(num) ==
    IF num < 1 \/ num > 20
    THEN Throw(<<"Arabic number is not supported. Must be an integer between 1 and 20.">>)
    ELSE Ok(ARABIC_TO_ROMAN[num])

\* `${prefix} ${romanNumeral}` or the rethrown error of convertToRoman
DisplayOf(prefix, romanNumeral) ==
    IF romanNumeral.ok THEN Ok(prefix \o <<" ">> \o romanNumeral.val)
    ELSE Throw(Wrap("Invalid team name", romanNumeral.err))

\* the two groups of /^([A-Z]+)(\d+)$/
DisplayOfMatch(prefix, numberStr) ==
    IF prefix = <<>> \/ numberStr = <<>> \/ ~AllDigits(numberStr)
    THEN Throw(<<"Invalid team name format. Expected format: 'PREFIX{NUMBER}'">>)
    ELSE DisplayOf(prefix, convertToRoman(DigitsToInt(numberStr)))

\* the prefix ends before the first character that is not in A-Z
DisplayOfSplit(trimmed, split) ==
    DisplayOfMatch(SubSeq(trimmed, 1, split - 1), SubSeq(trimmed, split, Len(trimmed)))

FirstNonLetter(s) ==
    IF \A i \in 1..Len(s) : IsUpperLetter(s[i]) THEN Len(s) + 1
    ELSE Min({i \in 1..Len(s) : ~IsUpperLetter(s[i])})

DisplayOfTrimmed(trimmed) == DisplayOfSplit(trimmed, FirstNonLetter(trimmed))

formatTeamNameForDisplay(dbTeamName) ==
    IF dbTeamName = <<>> THEN Throw(<<"Team name must be a non-empty string">>)
    ELSE DisplayOfTrimmed(Trim(dbTeamName))

\* the lookup in ROMAN_TO_ARABIC, whose keys are the values of ARABIC_TO_ROMAN
RomanLookup(upperRoman) ==
    IF \E n \in 1..Len(ARABIC_TO_ROMAN) : ARABIC_TO_ROMAN[n] = upperRoman
    THEN Ok(CHOOSE n \in 1..Len(ARABIC_TO_ROMAN) : ARABIC_TO_ROMAN[n] = upperRoman)
    ELSE Throw(<<"Roman numeral is not supported.">>)

convertFromRoman(roman) == RomanLookup(Trim(ToUpperCase(roman)))

\* `${prefix}${arabicNumber}` or the rethrown error of convertFromRoman
StorageOf(prefix, arabicNumber) ==
    IF arabicNumber.ok THEN Ok(prefix \o IntToDigits(arabicNumber.val))
    ELSE Throw(Wrap("Invalid team name", arabicNumber.err))

StorageOfParts(parts) ==
    IF Len(parts) # 2
    THEN Throw(<<"Invalid team name format. Expected format: 'PREFIX ROMAN_NUMERAL'">>)
    ELSE StorageOf(parts[1], convertFromRoman(parts[2]))

formatTeamNameForDatabase(csvTeamName) ==
    IF csvTeamName = <<>> THEN Throw(<<"Team name must be a non-empty string">>)
    ELSE StorageOfParts(SplitWs(Trim(csvTeamName)))

----------------------------------------------------------------------------
(* Budget source reader (csvReader) *)

RECURSIVE SumOver(_, _)
\* sum of f[k] for k in keys
SumOver(f, keys) ==
    IF keys = {} THEN 0
    ELSE f[CHOOSE x \in keys : TRUE] + SumOver(f, keys \ {CHOOSE x \in keys : TRUE})

HexDigits == <<"0","1","2","3","4","5","6","7","8","9","a","b","c","d","e","f">>
IsHexDigit(c) == \E i \in 1..16 : HexDigits[i] = ToLowerChar(c)
HexValue(c) == (CHOOSE i \in 1..16 : HexDigits[i] = ToLowerChar(c)) - 1

RECURSIVE HexToInt(_)
HexToInt(s) ==
    IF s = <<>> THEN 0
    ELSE 16 * HexToInt(SubSeq(s, 1, Len(s) - 1)) + HexValue(s[Len(s)])

\* the longest prefix of s made of decimal (hexadecimal) digits
DecimalPrefix(s) ==
    IF AllDigits(s) THEN s
    ELSE SubSeq(s, 1, Min({i \in 1..Len(s) : ~IsDigit(s[i])}) - 1)
HexPrefix(s) ==
    IF \A i \in 1..Len(s) : IsHexDigit(s[i]) THEN s
    ELSE SubSeq(s, 1, Min({i \in 1..Len(s) : ~IsHexDigit(s[i])}) - 1)

\* NaN || 0 and 0 || 0 are 0
DigitsOrZero(sign, ds, hex) ==
    IF ds = <<>> THEN 0
    ELSE sign * (IF hex THEN HexToInt(ds) ELSE DigitsToInt(ds))

\* u is the text after the sign
ParseUnsigned(sign, u) ==
    IF Len(u) >= 2 /\ u[1] = "0" /\ u[2] \in {"x", "X"}
    THEN DigitsOrZero(sign, HexPrefix(SubSeq(u, 3, Len(u))), TRUE)
    ELSE DigitsOrZero(sign, DecimalPrefix(u), FALSE)

\* t is the text after the leading white space
ParseSigned(t) ==
    IF t # <<>> /\ t[1] = "-" THEN ParseUnsigned(-1, Tail(t))
    ELSE IF t # <<>> /\ t[1] = "+" THEN ParseUnsigned(1, Tail(t))
    ELSE ParseUnsigned(1, t)

\* parseInt(s) || 0 : leading white space skipped, optional sign, 0x prefix
\* read as hexadecimal, digits up to the first other character
parseIntOrZero(s) ==
    IF \A i \in 1..Len(s) : s[i] \in Whitespace THEN 0
    ELSE ParseSigned(SubSeq(s, Min({i \in 1..Len(s) : s[i] \notin Whitespace}), Len(s)))

\* .trim().replace(/\r/g, '')
CleanCell(s) == SelectSeq(Trim(s), LAMBDA c : c # "\r")

\* (values[index] || '') for the last index whose header is h
ValueAt(headers, values, h) ==
    IF (CHOOSE i \in 1..Len(headers) :
            headers[i] = h /\ \A j \in (i + 1)..Len(headers) : headers[j] # h) <= Len(values)
    THEN values[CHOOSE i \in 1..Len(headers) :
                    headers[i] = h /\ \A j \in (i + 1)..Len(headers) : headers[j] # h]
    ELSE <<>>

\* the row object built by headers.forEach for one line
RowOf(headers, values) ==
    [h \in Range(headers) |-> CleanCell(ValueAt(headers, values, h))]

\* lines whose trim() is not empty
IsBlankLine(values) == Len(values) = 1 /\ Trim(values[1]) = <<>>

ParseLines(headers, lines) ==
    [i \in 1..Len(lines) |-> RowOf(headers, lines[i])]

\* A file is [exists, readable, headers, lines]: headers is the first line split
\* on ';', lines are the following lines split on ';'.
readCsvFile(file) ==
    IF ~file.exists THEN Throw(<<"CSV file not found">>)
    ELSE IF ~file.readable THEN Throw(<<"Error parsing CSV file", "EACCES">>)
    ELSE Ok(ParseLines([i \in 1..Len(file.headers) |-> CleanCell(file.headers[i])],
                       SelectSeq(file.lines, LAMBDA values : ~IsBlankLine(values))))

readBudget2025(file) == Rethrow("Failed to read budget2025.csv", readCsvFile(file))

Field(row, name) == IF name \in DOMAIN row THEN row[name] ELSE Undefined

StartsWith2025(key) == Len(key) >= 4 /\ SubSeq(key, 1, 4) = <<"2","0","2","5">>

MonthlyHoursOf(row) ==
    [key \in {k \in DOMAIN row : StartsWith2025(k)} |-> parseIntOrZero(row[key])]

BudgetRecord(row, monthlyHours) ==
    [team |-> Field(row, <<"T","e","a","m">>),
     description |-> Field(row, <<"D","e","s","c","r","i","p","t","i","o","n">>),
     employee |-> Field(row, <<"E","m","p","l","o","y","e","e">>),
     taskId |-> Field(row, <<"T","a","s","k","I","D">>),
     monthlyHours |-> monthlyHours,
     totalHours |-> SumOver(monthlyHours, DOMAIN monthlyHours)]

processBudgetData(rawData) ==
    [i \in 1..Len(rawData) |-> BudgetRecord(rawData[i], MonthlyHoursOf(rawData[i]))]

\* the .map(...) callback without its override of totalHours
ScopeToPeriod_KeepsTotal(items, periodCode) == items

\* .map(item => ({...item, totalHours: item.monthlyHours[periodCode] || 0}))
ScopeToPeriod(items, periodCode) ==
    [i \in 1..Len(items) |->
        [items[i] EXCEPT !.totalHours = items[i].monthlyHours[periodCode]]]

\* the .filter(...) callback
KeepsItem(item, periodCode, filter) ==
    /\ ~(filter # Undefined /\ filter # <<>> /\ item.team # filter)
    /\ periodCode \in DOMAIN item.monthlyHours

FilterBudget(processedData, periodCode, filter) ==
    ScopeToPeriod(SelectSeq(processedData, LAMBDA item : KeepsItem(item, periodCode, filter)),
                  periodCode)

BudgetFromRaw(rawData, p, filter, clock) ==
    IF ~rawData.ok THEN rawData
    ELSE Ok(FilterBudget(processBudgetData(rawData.val), convertPeriodToCode(p, clock), filter))

\* file is what readCsvFile found when the call was made; clock is the system
\* time when the continuation after `await readBudget2025()` runs
getBudgetDataForPeriod(file, p, filter, clock) ==
    Rethrow("Failed to get budget data for period",
            BudgetFromRaw(readBudget2025(file), p, filter, clock))

----------------------------------------------------------------------------
(* JavaScript numbers produced by a division *)

RECURSIVE GCD(_, _)
GCD(a, b) == IF b = 0 THEN a ELSE GCD(b, a % b)

AbsInt(n) == IF n < 0 THEN -n ELSE n

Zero == [kind |-> "fin", num |-> 0, den |-> 1]
NaN == [kind |-> "NaN", num |-> 0, den |-> 0]
Infinity == [kind |-> "Infinity", num |-> 1, den |-> 0]
NegInfinity == [kind |-> "-Infinity", num |-> -1, den |-> 0]

\* the fraction n / d in lowest terms, d > 0
Fraction(n, d, g) == [kind |-> "fin", num |-> n \div g, den |-> d \div g]

\* (a / b) * 100 for integers a and b
JsPercent(a, b) ==
    IF b = 0 THEN (IF a = 0 THEN NaN ELSE IF a > 0 THEN Infinity ELSE NegInfinity)
    ELSE IF b < 0 THEN Fraction(-(a * 100), -b, GCD(AbsInt(a * 100), -b))
    ELSE Fraction(a * 100, b, GCD(AbsInt(a * 100), b))

IsFinite(x) == x.kind = "fin"
\* Math.abs(x) > n  and  Math.abs(x) <= n  (both false for NaN)
AbsGreater(x, n) ==
    x.kind \in {"Infinity", "-Infinity"} \/ (x.kind = "fin" /\ AbsInt(x.num) > n * x.den)
AbsAtMost(x, n) == x.kind = "fin" /\ AbsInt(x.num) <= n * x.den
IsPositive(x) == x.kind = "Infinity" \/ (x.kind = "fin" /\ x.num > 0)

----------------------------------------------------------------------------
(* Reconciliation engine (executiveSummaryData) *)

\* the lookup returning the last match instead of the first
FindBudget_Last(budgetData, initials) ==
    IF \A i \in 1..Len(budgetData) : budgetData[i].employee # initials THEN 0
    ELSE CHOOSE i \in 1..Len(budgetData) :
            /\ budgetData[i].employee = initials
            /\ \A j \in (i + 1)..Len(budgetData) : budgetData[j].employee # initials

\* budgetData.find(budget => budget.employee === initials): index of the first
\* match, 0 when there is none
FindBudget(budgetData, initials) ==
    IF \A i \in 1..Len(budgetData) : budgetData[i].employee # initials THEN 0
    ELSE Min({i \in 1..Len(budgetData) : budgetData[i].employee = initials})

\* the division without its budgetedHours > 0 guard
variancePercentageOf_Unguarded(variance, budgetedHours) ==
    JsPercent(variance, budgetedHours)

variancePercentageOf(variance, budgetedHours) ==
    IF budgetedHours > 0 THEN JsPercent(variance, budgetedHours) ELSE Zero

\* the entry with the variance taken as budgeted minus billed
AnalysisEntry_Reversed(initials, fullName, teamName, budgetedHours, billedHours) ==
    [initials |-> initials,
     fullName |-> fullName,
     team |-> teamName,
     budgetedHours |-> budgetedHours,
     billedHours |-> billedHours,
     variance |-> budgetedHours - billedHours,
     variancePercentage |-> variancePercentageOf(budgetedHours - billedHours, budgetedHours)]

\* the object pushed onto analysis
AnalysisEntry(initials, fullName, teamName, budgetedHours, billedHours) ==
    [initials |-> initials,
     fullName |-> fullName,
     team |-> teamName,
     budgetedHours |-> budgetedHours,
     billedHours |-> billedHours,
     variance |-> billedHours - budgetedHours,
     variancePercentage |-> variancePercentageOf(billedHours - budgetedHours, budgetedHours)]

\* the entry filed under the team of the budget record
MatchTeam_BudgetTeam(dbEmployee, initials, budgetEntry, teamName) ==
    IF ~teamName.ok THEN <<>>
    ELSE <<AnalysisEntry(initials, dbEmployee.EmployeeName, budgetEntry.team,
                         budgetEntry.totalHours, dbEmployee.BillableHours)>>

\* formatTeamNameForDisplay throwing inside the object literal is caught by the
\* loop's catch block: nothing is pushed
MatchTeam(dbEmployee, initials, budgetEntry, teamName) ==
    IF ~teamName.ok THEN <<>>
    ELSE <<AnalysisEntry(initials, dbEmployee.EmployeeName, teamName.val,
                         budgetEntry.totalHours, dbEmployee.BillableHours)>>

\* the join keeping an employee without a budget record, with a budget of 0
MatchBudget_KeepsUnmatched(dbEmployee, budgetData, initials, found) ==
    IF found = 0
    THEN <<AnalysisEntry(initials, dbEmployee.EmployeeName,
                         dbEmployee.EmployeeID_EmployeeNiv1, 0, dbEmployee.BillableHours)>>
    ELSE MatchTeam(dbEmployee, initials, budgetData[found],
                   formatTeamNameForDisplay(dbEmployee.EmployeeID_EmployeeNiv1))

\* if (budgetEntry) ... else console.warn
MatchBudget(dbEmployee, budgetData, initials, found) ==
    IF found = 0 THEN <<>>
    ELSE MatchTeam(dbEmployee, initials, budgetData[found],
                   formatTeamNameForDisplay(dbEmployee.EmployeeID_EmployeeNiv1))

\* extractInitials throwing is caught by the loop's catch block
MatchInitials(dbEmployee, budgetData, initials) ==
    IF ~initials.ok THEN <<>>
    ELSE MatchBudget(dbEmployee, budgetData, initials.val,
                     FindBudget(budgetData, initials.val))

\* the body of the for loop for one dbEmployee: the entries it pushes
MatchOne(dbEmployee, budgetData) ==
    MatchInitials(dbEmployee, budgetData, extractInitials(dbEmployee.EmployeeName))

RECURSIVE matchEmployeeData(_, _)
matchEmployeeData(databaseData, budgetData) ==
    IF databaseData = <<>> THEN <<>>
    ELSE MatchOne(Head(databaseData), budgetData)
            \o matchEmployeeData(Tail(databaseData), budgetData)

\* the accumulation adding the budgeted hours to the team's billed hours
AddToTeam_WrongField(t, employee) ==
    [t EXCEPT !.budgeted = @ + employee.budgetedHours,
              !.billed = @ + employee.budgetedHours,
              !.variance = @ + employee.variance,
              !.employeeCount = @ + 1]

\* the four += of the loop body of generateTeamSummary
AddToTeam(t, employee) ==
    [t EXCEPT !.budgeted = @ + employee.budgetedHours,
              !.billed = @ + employee.billedHours,
              !.variance = @ + employee.variance,
              !.employeeCount = @ + 1]

NewTeam(name) ==
    [team |-> name, budgeted |-> 0, billed |-> 0, variance |-> 0, employeeCount |-> 0]

\* one iteration of the loop: teamSummary is the sequence of its entries in
\* insertion order
AddEmployee(teamSummary, employee) ==
    IF \A i \in 1..Len(teamSummary) : teamSummary[i].team # employee.team
    THEN Append(teamSummary, AddToTeam(NewTeam(employee.team), employee))
    ELSE [i \in 1..Len(teamSummary) |->
            IF teamSummary[i].team = employee.team
            THEN AddToTeam(teamSummary[i], employee) ELSE teamSummary[i]]

RECURSIVE generateTeamSummary(_)
generateTeamSummary(employeeAnalysis) ==
    IF employeeAnalysis = <<>> THEN <<>>
    ELSE AddEmployee(
            generateTeamSummary(SubSeq(employeeAnalysis, 1, Len(employeeAnalysis) - 1)),
            employeeAnalysis[Len(employeeAnalysis)])

RECURSIVE SumBudgeted(_)
\* employeeAnalysis.reduce((sum, emp) => sum + emp.budgetedHours, 0)
SumBudgeted(seq) ==
    IF seq = <<>> THEN 0 ELSE Head(seq).budgetedHours + SumBudgeted(Tail(seq))

RECURSIVE SumBilled(_)
\* employeeAnalysis.reduce((sum, emp) => sum + emp.billedHours, 0)
SumBilled(seq) ==
    IF seq = <<>> THEN 0 ELSE Head(seq).billedHours + SumBilled(Tail(seq))

\* the division without its totalBudgeted > 0 guard
utilizationRateOf_Unguarded(totalBilled, totalBudgeted) ==
    JsPercent(totalBilled, totalBudgeted)

utilizationRateOf(totalBilled, totalBudgeted) ==
    IF totalBudgeted > 0 THEN JsPercent(totalBilled, totalBudgeted) ELSE Zero

\* the object returned by getExecutiveSummaryAnalysis
SummaryOf(employeeAnalysis, totalBudgeted, totalBilled) ==
    [totalBudgeted |-> totalBudgeted,
     totalBilled |-> totalBilled,
     budgetVariance |-> totalBilled - totalBudgeted,
     utilizationRate |-> utilizationRateOf(totalBilled, totalBudgeted),
     employeeAnalysis |-> employeeAnalysis,
     teamSummary |-> generateTeamSummary(employeeAnalysis)]

Summarise(employeeAnalysis) ==
    SummaryOf(employeeAnalysis, SumBudgeted(employeeAnalysis), SumBilled(employeeAnalysis))

\* the part of getExecutiveSummaryAnalysis after both fetches have resolved
Analyse(databaseData, processedBudgetData) ==
    Summarise(matchEmployeeData(databaseData, processedBudgetData))

----------------------------------------------------------------------------
(* Executive summary tool (getExecutiveSummary.execute) *)

AllTeams == <<"A","l","l"," ","T","e","a","m","s">>
\* team || 'All Teams'
TeamOrAll(t) == IF t = Undefined \/ t = <<>> THEN AllTeams ELSE t

\* variancePercentage of the tool: budgetVariance over totalBudgeted
overallVariancePercentage(analysisData) ==
    IF analysisData.totalBudgeted > 0
    THEN JsPercent(analysisData.budgetVariance, analysisData.totalBudgeted)
    ELSE Zero

teamVariancePercentage(teamData) ==
    IF teamData.budgeted > 0 THEN JsPercent(teamData.variance, teamData.budgeted) ELSE Zero

\* the summary-level recommendation given from a magnitude above 9 on
OverallRecommendations_FromTen(vp) ==
    IF ~AbsGreater(vp, 10) /\ ~(AbsAtMost(vp, 10) /\ ~AbsAtMost(vp, 9))
    THEN <<>>
    ELSE IF IsPositive(vp) THEN <<[kind |-> "total_over", pct |-> vp]>>
    ELSE <<[kind |-> "total_under", pct |-> vp]>>

\* A recommendation or alert is represented by its kind and the numbers its
\* text is built from.
OverallRecommendations(vp) ==
    IF ~AbsGreater(vp, 10) THEN <<>>
    ELSE IF IsPositive(vp) THEN <<[kind |-> "total_over", pct |-> vp]>>
    ELSE <<[kind |-> "total_under", pct |-> vp]>>

OverallAlerts(vp) ==
    IF ~AbsGreater(vp, 10) THEN <<>>
    ELSE IF IsPositive(vp) THEN <<[type |-> "warning", pct |-> vp]>>
    ELSE <<[type |-> "info", pct |-> vp]>>

TeamRecommendation(teamData, tvp) ==
    IF ~AbsGreater(tvp, 15) THEN <<>>
    ELSE IF IsPositive(tvp)
    THEN <<[kind |-> "team_over", team |-> teamData.team, pct |-> tvp]>>
    ELSE <<[kind |-> "team_under", team |-> teamData.team, pct |-> tvp]>>

RECURSIVE TeamRecommendations(_)
\* Object.entries(analysisData.teamSummary).forEach(...)
TeamRecommendations(teamSummary) ==
    IF teamSummary = <<>> THEN <<>>
    ELSE TeamRecommendation(Head(teamSummary), teamVariancePercentage(Head(teamSummary)))
            \o TeamRecommendations(Tail(teamSummary))

HighVarianceCount(employeeAnalysis) ==
    Len(SelectSeq(employeeAnalysis, LAMBDA emp : AbsGreater(emp.variancePercentage, 20)))

EmployeeRecommendations(employeeAnalysis) ==
    IF HighVarianceCount(employeeAnalysis) > 0
    THEN <<[kind |-> "review_employees", count |-> HighVarianceCount(employeeAnalysis)]>>
    ELSE <<>>

\* the object returned at the end of the try block
SuccessObject(p, t, analysisData, variancePercentage) ==
    [period |-> p,
     team |-> TeamOrAll(t),
     totalBudgeted |-> analysisData.totalBudgeted,
     totalBilled |-> analysisData.totalBilled,
     budgetVariance |-> variancePercentage,
     utilizationRate |-> analysisData.utilizationRate,
     keyMetrics |->
        [budgetedHours |-> analysisData.totalBudgeted,
         billedHours |-> analysisData.totalBilled,
         averageHourlyRate |-> IF analysisData.totalBilled > 0 THEN 50 ELSE 0,
         employeesOnTrack |->
            Len(SelectSeq(analysisData.employeeAnalysis,
                          LAMBDA emp : AbsAtMost(emp.variancePercentage, 5))),
         employeesOverBudget |->
            Len(SelectSeq(analysisData.employeeAnalysis, LAMBDA emp : emp.variance > 0)),
         employeesUnderBudget |->
            Len(SelectSeq(analysisData.employeeAnalysis, LAMBDA emp : emp.variance < 0))],
     teamSummary |-> analysisData.teamSummary,
     employeeAnalysis |-> analysisData.employeeAnalysis,
     recommendations |-> OverallRecommendations(variancePercentage)
                            \o TeamRecommendations(analysisData.teamSummary)
                            \o EmployeeRecommendations(analysisData.employeeAnalysis),
     alerts |-> OverallAlerts(variancePercentage)]

ToolSuccess(p, t, analysisData) ==
    SuccessObject(p, t, analysisData, overallVariancePercentage(analysisData))

\* the object returned by the catch block
ToolFailure(p, t, err) ==
    [period |-> p,
     team |-> TeamOrAll(t),
     error |-> TRUE,
     errorMessage |-> Wrap("Failed to generate executive summary", err),
     totalBudgeted |-> 0,
     totalBilled |-> 0,
     budgetVariance |-> Zero,
     utilizationRate |-> Zero,
     keyMetrics |->
        [budgetedHours |-> 0, billedHours |-> 0, averageHourlyRate |-> 0,
         employeesOnTrack |-> 0, employeesOverBudget |-> 0, employeesUnderBudget |-> 0],
     recommendations |-> <<[kind |-> "unable_to_analyze"]>>,
     alerts |-> <<[type |-> "error"]>>]

\* execute answering a failed analysis with the summary of a period without
\* activity
execute_HidesFailure(p, t, analysis) ==
    IF analysis.state = "fulfilled" THEN ToolSuccess(p, t, analysis.value)
    ELSE ToolSuccess(p, t, Analyse(<<>>, <<>>))

\* execute once the promise of getExecutiveSummaryAnalysis has settled
execute(p, t, analysis) ==
    IF analysis.state = "fulfilled" THEN ToolSuccess(p, t, analysis.value)
    ELSE ToolFailure(p, t, analysis.error)

----------------------------------------------------------------------------
(* Inputs of the model *)

\* raw EmployeeName values of the relational store
NameTHN == <<"T","H","N"," ","-"," ","T","h","o","m","a","s"," ","N","i","s","s","e","n">>
NameABC == <<" ","a","b","c","-","a","n","n","a"," ","b","o"," ">>
NameNoHyphen == <<"N","O","H","Y","P","H","E","N">>

CST3 == <<"C","S","T","3">>
CST4 == <<"C","S","T","4">>
CST5 == <<"C","S","T","5">>
\* 'cst4' passes the IN ('CST3', 'CST4', 'CST5') test of a case-insensitive collation
cst4 == <<"c","s","t","4">>

DbRow(name, niv1, hours) ==
    [EmployeeName |-> name, EmployeeID_EmployeeNiv1 |-> niv1, BillableHours |-> hours]

\* candidate rows of the recordset; GROUP BY EmployeeName, EmployeeID_EmployeeNiv1
\* makes the (name, team) pairs of one recordset distinct
DbRows == {DbRow(NameTHN, CST3, 110), DbRow(NameABC, CST3, 180),
           DbRow(NameTHN, CST4, 120), DbRow(NameNoHyphen, CST5, 50),
           DbRow(NameABC, cst4, 0)}

\* sequences of at most n distinct elements of S
RECURSIVE DistinctSeqs(_, _)
DistinctSeqs(S, n) ==
    IF n = 0 THEN {<<>>}
    ELSE LET shorter == DistinctSeqs(S, n - 1)
         IN  shorter \cup
             {Append(y[1], y[2]) :
                 y \in {z \in shorter \X S : Len(z[1]) = n - 1 /\ z[2] \notin Range(z[1])}}

DbResults == DistinctSeqs(DbRows, MaxDbRows)

CSTIII == <<"C","S","T"," ","I","I","I">>
CSTIV == <<"C","S","T"," ","I","V">>
THN == <<"T","H","N">>
ABC == <<"A","B","C">>

CsvHeaders == << <<"T","e","a","m">>, <<"D","e","s","c","r","i","p","t","i","o","n">>,
                 <<"E","m","p","l","o","y","e","e">>, <<"T","a","s","k","I","D">>,
                 <<"2","0","2","5","0","5">>, <<"2","0","2","5","0","6">> >>

\* candidate data lines of data/budget/budget2025.csv, split on ';'
CsvLines == {
    <<CSTIII, <<"D","e","v">>, THN, <<"T","1">>, <<"1","0","0">>, <<>> >>,
    <<CSTIII, <<"D","e","v">>, ABC, <<"T","2">>, <<"2","0","0">>, <<"1","2","a","b","c">> >>,
    <<CSTIV, <<"O","p","s">>, THN, <<"T","3">>, <<"0">>, <<"-","5">> >> }

CsvFile(exists, readable, lines) ==
    [exists |-> exists, readable |-> readable, headers |-> CsvHeaders, lines |-> lines]

CsvFiles ==
    {CsvFile(FALSE, FALSE, <<>>), CsvFile(TRUE, FALSE, <<>>)}
        \cup {CsvFile(TRUE, TRUE, lines) : lines \in DistinctSeqs(CsvLines, MaxCsvRows)}

Periods == { <<"2","0","2","5","0","5">>,
             <<"M","a","y"," ","2","0","2","5">>,
             <<"g","a","r","b","a","g","e">> }

TeamArgs == {Undefined, CSTIII}

StartClock == [year |-> 2025, month |-> 5]

----------------------------------------------------------------------------
(* Promises *)

Pending == [state |-> "pending", value |-> <<>>, error |-> <<>>]
Fulfilled(v) == [state |-> "fulfilled", value |-> v, error |-> <<>>]
Rejected(e) == [state |-> "rejected", value |-> <<>>, error |-> e]

FromOutcome(r) == IF r.ok THEN Fulfilled(r.val) ELSE Rejected(r.err)

\* the analysis going on with an empty budget set when the budget fetch failed
getExecutiveSummaryAnalysis_Partial(act, bud) ==
    IF act.state = "rejected"
    THEN Rejected(Wrap("Executive summary analysis failed", act.error))
    ELSE Fulfilled(Analyse(act.value, bud.value))

\* The promise of getExecutiveSummaryAnalysis once Promise.all has settled: a
\* rejection of the actuals fetch is seen before the budget's when both have
\* rejected in the calling turn.
getExecutiveSummaryAnalysis(act, bud) ==
    IF act.state = "rejected"
    THEN Rejected(Wrap("Executive summary analysis failed", act.error))
    ELSE IF bud.state = "rejected"
    THEN Rejected(Wrap("Executive summary analysis failed", bud.error))
    ELSE Fulfilled(Analyse(act.value, bud.value))

NoResult == [returned |-> FALSE, value |-> <<>>]

----------------------------------------------------------------------------
(* State machine of one invocation *)

Init ==
    /\ pc = "idle"
    /\ caller = "none"
    /\ period = <<>>
    /\ team = Undefined
    /\ teamFilter = Undefined
    /\ configOk = TRUE
    /\ csv = CsvFile(FALSE, FALSE, <<>>)
    /\ actPeriodCode = Undefined
    /\ budPeriodCode = Undefined
    /\ dbPc = "idle"
    /\ connOpen = FALSE
    /\ opens = 0
    /\ queries = 0
    /\ closes = 0
    /\ pending = Pending
    /\ actuals = Pending
    /\ budget = Pending
    /\ reconcile = Pending
    /\ toolResult = NoResult
    /\ util = "none"
    /\ utilArg = <<>>
    /\ utilRes = <<>>

\* the call with execute handing its team argument on as the team filter
Call_FiltersByTeam(c, p, t, file, cfg) ==
    /\ pc = "idle"
    /\ UNCHANGED utilVars
    /\ pc' = "called"
    /\ caller' = c
    /\ period' = p
    /\ team' = IF c = "tool" THEN t ELSE Undefined
    /\ teamFilter' = t
    /\ configOk' = cfg
    /\ csv' = file
    /\ actPeriodCode' = convertPeriodToCode(p, StartClock)
    /\ dbPc' = "connect"
    /\ UNCHANGED <<budPeriodCode, connOpen, opens, queries, closes,
                   pending, actuals, budget, reconcile, toolResult>>

\* The synchronous part of a call: execute calls getExecutiveSummaryAnalysis(period)
\* (the script calls it with a team filter); Promise.all's arguments run
\* fetchBilledHoursData up to the await of pool.connect() and
\* getBudgetDataForPeriod up to the await of readBudget2025(), whose file access
\* is synchronous.
Call(c, p, t, file, cfg) ==
    /\ pc = "idle"
    /\ UNCHANGED utilVars
    /\ pc' = "called"
    /\ caller' = c
    /\ period' = p
    /\ team' = IF c = "tool" THEN t ELSE Undefined
    /\ teamFilter' = IF c = "script" THEN t ELSE Undefined
    /\ configOk' = cfg
    /\ csv' = file
    /\ actPeriodCode' = convertPeriodToCode(p, StartClock)
    /\ dbPc' = "connect"
    /\ UNCHANGED <<budPeriodCode, connOpen, opens, queries, closes,
                   pending, actuals, budget, reconcile, toolResult>>

NextMonth(clock) ==
    IF clock.month = 12 THEN [year |-> clock.year + 1, month |-> 1]
    ELSE [year |-> clock.year, month |-> clock.month + 1]

RECURSIVE AddMonths(_, _)
AddMonths(clock, k) == IF k = 0 THEN clock ELSE AddMonths(NextMonth(clock), k - 1)

\* what new Date() may give once the file has been read
LaterClocks == {AddMonths(StartClock, k) : k \in 0..MaxTicks}

\* the error of a malformed configuration with its message replaced by the
\* driver's connection error
ConfigError_AsConnect == <<"Database query failed", "Query execution failed",
                           "Database connection failed", "ConnectionError">>

ConfigError == <<"Database query failed", "Query execution failed",
                 "Database connection failed",
                 "Missing required database environment variables">>
ConnectError == <<"Database query failed", "Query execution failed",
                  "Database connection failed", "ConnectionError">>
QueryError == <<"Database query failed", "Query execution failed", "RequestError">>

\* The continuations that run before any I/O completes: the error thrown by
\* getDatabaseConfig reaches the caller of fetchBilledHoursData, and
\* getBudgetDataForPeriod processes the rows that were read; clock is the system
\* time at that moment, the same month as at the call or a later one.
Continue(clock) ==
    /\ pc = "called"
    /\ UNCHANGED utilVars
    /\ pc' = "running"
    /\ actuals' = IF configOk THEN Pending ELSE Rejected(ConfigError)
    /\ dbPc' = IF configOk THEN "connect" ELSE "done"
    /\ budget' = FromOutcome(getBudgetDataForPeriod(csv, period, teamFilter, clock))
    /\ budPeriodCode' = IF csv.exists /\ csv.readable
                        THEN convertPeriodToCode(period, clock) ELSE Undefined
    /\ UNCHANGED <<caller, period, team, teamFilter, configOk, csv,
                   actPeriodCode, connOpen, opens, queries, closes, pending,
                   reconcile, toolResult>>

\* Promise.all has an outcome that getExecutiveSummaryAnalysis has not yet taken
Settleable ==
    /\ pc = "running"
    /\ reconcile.state = "pending"
    /\ \/ actuals.state = "rejected"
       \/ budget.state = "rejected"
       \/ actuals.state = "fulfilled" /\ budget.state = "fulfilled"

\* The continuation after `await Promise.all(...)`, followed for the tool by the
\* continuation of execute after `await getExecutiveSummaryAnalysis(period)`.
\* Both are microtasks: they run before the next I/O completion is handled.
Resolve ==
    /\ Settleable
    /\ UNCHANGED utilVars
    /\ reconcile' = getExecutiveSummaryAnalysis(actuals, budget)
    /\ toolResult' = IF caller = "tool"
                     THEN [returned |-> TRUE, value |-> execute(period, team, reconcile')]
                     ELSE toolResult
    /\ UNCHANGED <<pc, caller, period, team, teamFilter, configOk, csv,
                   actPeriodCode, budPeriodCode, dbPc, connOpen, opens, queries, closes,
                   pending, actuals, budget>>

\* pool.connect() completes; on success executeQuery issues the query
DbConnect(ok) ==
    /\ pc = "running" /\ dbPc = "connect" /\ ~Settleable
    /\ UNCHANGED utilVars
    /\ IF ok
       THEN /\ connOpen' = TRUE
            /\ opens' = opens + 1
            /\ queries' = queries + 1
            /\ dbPc' = "query"
            /\ UNCHANGED actuals
       ELSE /\ actuals' = Rejected(ConnectError)
            /\ dbPc' = "done"
            /\ UNCHANGED <<connOpen, opens, queries>>
    /\ UNCHANGED <<pc, caller, period, team, teamFilter, configOk, csv,
                   actPeriodCode, budPeriodCode, closes, pending, budget,
                   reconcile, toolResult>>

\* request.query() completing without the finally block on the failure path
DbQuery_LeaksOnFailure(ok, recordset) ==
    /\ pc = "running" /\ dbPc = "query" /\ ~Settleable
    /\ UNCHANGED utilVars
    /\ pending' = IF ok THEN Fulfilled(recordset) ELSE Rejected(QueryError)
    /\ closes' = IF ok THEN closes + 1 ELSE closes
    /\ dbPc' = IF ok THEN "close" ELSE "done"
    /\ actuals' = IF ok THEN actuals ELSE Rejected(QueryError)
    /\ UNCHANGED <<pc, caller, period, team, teamFilter, configOk, csv,
                   actPeriodCode, budPeriodCode, connOpen, opens, queries,
                   budget, reconcile, toolResult>>

\* request.query() completes; the finally block calls connection.close()
DbQuery(ok, recordset) ==
    /\ pc = "running" /\ dbPc = "query" /\ ~Settleable
    /\ UNCHANGED utilVars
    /\ pending' = IF ok THEN Fulfilled(recordset) ELSE Rejected(QueryError)
    /\ closes' = closes + 1
    /\ dbPc' = "close"
    /\ UNCHANGED <<pc, caller, period, team, teamFilter, configOk, csv,
                   actPeriodCode, budPeriodCode, connOpen, opens, queries,
                   actuals, budget, reconcile, toolResult>>

\* connection.close() completing with its failure thrown out of the finally
\* block, where it replaces the outcome of the try block
DbClose_ChangesOutcome(ok) ==
    /\ pc = "running" /\ dbPc = "close" /\ ~Settleable
    /\ UNCHANGED utilVars
    /\ connOpen' = IF ok THEN FALSE ELSE connOpen
    /\ actuals' = IF ok THEN pending ELSE Rejected(<<"Database query failed", "CloseError">>)
    /\ dbPc' = "done"
    /\ UNCHANGED <<pc, caller, period, team, teamFilter, configOk, csv,
                   actPeriodCode, budPeriodCode, opens, queries, closes, pending,
                   budget, reconcile, toolResult>>

\* connection.close() completes (a failure of close is logged and dropped);
\* executeQuery and fetchBilledHoursData deliver the outcome
DbClose(ok) ==
    /\ pc = "running" /\ dbPc = "close" /\ ~Settleable
    /\ UNCHANGED utilVars
    /\ connOpen' = IF ok THEN FALSE ELSE connOpen
    /\ actuals' = pending
    /\ dbPc' = "done"
    /\ UNCHANGED <<pc, caller, period, team, teamFilter, configOk, csv,
                   actPeriodCode, budPeriodCode, opens, queries, closes, pending,
                   budget, reconcile, toolResult>>

Next ==
    \/ \E c \in {"tool", "script"}, p \in Periods, t \in TeamArgs,
          file \in CsvFiles, cfg \in BOOLEAN : Call(c, p, t, file, cfg)
    \/ \E clock \in LaterClocks : Continue(clock)
    \/ Resolve
    \/ \E ok \in BOOLEAN : DbConnect(ok)
    \/ \E recordset \in DbResults : DbQuery(TRUE, recordset)
    \/ DbQuery(FALSE, <<>>)
    \/ \E ok \in BOOLEAN : DbClose(ok)

Spec == Init /\ [][Next]_vars

\* The driver completes, with success or failure, every connect, query and
\* close it was asked for. (Nothing is assumed about when the file read
\* completes.)
FairSpec ==
    /\ Spec
    /\ WF_vars(\E ok \in BOOLEAN : DbConnect(ok))
    /\ WF_vars(\E recordset \in DbResults : DbQuery(TRUE, recordset) \/ DbQuery(FALSE, <<>>))
    /\ WF_vars(\E ok \in BOOLEAN : DbClose(ok))

----------------------------------------------------------------------------
(* The actuals query of fetchBilledHoursData *)

\* A revision of a time entry: a row of the fact view joined with its employee.
\* entry is DW_ID, batch is DW_Batch_Created, month is the yyyymm prefix of Date.
Revision(entry, batch, name, niv1, hours, billable, month) ==
    [entry |-> entry, batch |-> batch, EmployeeName |-> name,
     EmployeeID_EmployeeNiv1 |-> niv1, Hours |-> hours,
     IsBillable |-> billable, month |-> month]

\* WHERE f.Hours > 0 AND e.EmployeeID_EmployeeNiv1 IN ('CST3', 'CST4', 'CST5')
LatestEntries(revisions) ==
    {r \in revisions :
        r.Hours > 0 /\ ToUpperCase(r.EmployeeID_EmployeeNiv1) \in {CST3, CST4, CST5}}

\* ROW_NUMBER() OVER (PARTITION BY f.DW_ID ORDER BY f.DW_Batch_Created DESC),
\* numbered over the rows the WHERE clause of the CTE has kept
RowNum(r, cte) ==
    1 + Cardinality({q \in cte : q.entry = r.entry /\ q.batch > r.batch})

\* WHERE RowNum = 1 AND Date LIKE @periodCode
SelectedRows(cte, periodCode) ==
    {r \in cte : RowNum(r, cte) = 1 /\ r.month = periodCode}

RECURSIVE SumBillable(_)
\* SUM(CASE WHEN IsBillableKey = 1 THEN Hours ELSE 0 END)
SumBillable(rows) ==
    IF rows = {} THEN 0
    ELSE LET r == CHOOSE x \in rows : TRUE
         IN  (IF r.IsBillable THEN r.Hours ELSE 0) + SumBillable(rows \ {r})

\* GROUP BY EmployeeName, EmployeeID_EmployeeNiv1
GroupRows(selected) ==
    {DbRow(g[1], g[2],
           SumBillable({r \in selected :
                           r.EmployeeName = g[1] /\ r.EmployeeID_EmployeeNiv1 = g[2]})) :
        g \in {<<r.EmployeeName, r.EmployeeID_EmployeeNiv1>> : r \in selected}}

\* the recordset of the query of fetchBilledHoursData, as a set of rows
BilledHoursQuery(revisions, periodCode) ==
    GroupRows(SelectedRows(LatestEntries(revisions), periodCode))

MaxRevisions == 2   \* revisions of one time entry

May2025 == <<"2","0","2","5","0","5">>
April2025 == <<"2","0","2","5","0","4">>
DEV1 == <<"D","E","V","1">>

\* what one revision of a time entry may record
RevisionContents ==
    [Hours : {0, 8}, IsBillable : BOOLEAN, month : {May2025, April2025},
     EmployeeID_EmployeeNiv1 : {CST3, DEV1}]

\* the revisions of time entry 1, oldest first
Histories == UNION {[1..n -> RevisionContents] : n \in 1..MaxRevisions}

RevisionsOf(history) ==
    {Revision(1, b, NameTHN, history[b].EmployeeID_EmployeeNiv1, history[b].Hours,
              history[b].IsBillable, history[b].month) : b \in 1..Len(history)}

\* a second time entry of the same employee, with a single revision
OtherEntries == {{}, {Revision(2, 1, NameTHN, CST3, 5, TRUE, May2025)}}

\* a direct caller runs the query of fetchBilledHoursData on a fact view
RunQuery(revisions, periodCode) ==
    /\ util = "none"
    /\ util' = "fetchBilledHoursData"
    /\ utilArg' = [revisions |-> revisions, periodCode |-> periodCode]
    /\ utilRes' = BilledHoursQuery(revisions, periodCode)
    /\ UNCHANGED callVars

MaxTeamNumber == 21  \* team numbers run from 0 to MaxTeamNumber

CST == <<"C","S","T">>

RECURSIVE Tens(_)
Tens(k) == IF k = 0 THEN <<>> ELSE <<"X">> \o Tens(k - 1)

\* the Roman numeral of a natural number below 40; N stands for zero
RomanOf(n) ==
    IF n = 0 THEN <<"N">>
    ELSE IF n % 10 = 0 THEN Tens(n \div 10)
    ELSE Tens(n \div 10) \o ARABIC_TO_ROMAN[n % 10]

\* the canonical spellings of team n
storage(n) == CST \o IntToDigits(n)
display(n) == CST \o <<" ">> \o RomanOf(n)

\* spellings of team n in storage form: canonical, with a leading zero, with
\* surrounding whitespace, with a lowercase prefix
StorageSpellings(n) ==
    {storage(n),
     CST \o <<"0">> \o IntToDigits(n),
     <<" ">> \o storage(n) \o <<" ">>,
     ToLowerCase(CST) \o IntToDigits(n)}

\* spellings of team n in display form: canonical, with a lowercase numeral,
\* with a lowercase prefix, with two blanks, with surrounding whitespace
DisplaySpellings(n) ==
    {display(n),
     CST \o <<" ">> \o ToLowerCase(RomanOf(n)),
     ToLowerCase(CST) \o <<" ">> \o RomanOf(n),
     CST \o <<" ", " ">> \o RomanOf(n),
     <<" ">> \o display(n) \o <<" ">>}

\* formatTeamNameForDatabase applied to the outcome of formatTeamNameForDisplay
BackToStorage(shown) ==
    IF shown.ok THEN formatTeamNameForDatabase(shown.val) ELSE shown

\* formatTeamNameForDisplay applied to the outcome of formatTeamNameForDatabase
BackToDisplay(stored) ==
    IF stored.ok THEN formatTeamNameForDisplay(stored.val) ELSE stored

\* a direct caller converts a storage spelling of team n and converts the
\* result back
ShowTeam(n, dbTeamName) ==
    /\ util = "none"
    /\ util' = "formatTeamNameForDisplay"
    /\ utilArg' = [n |-> n, name |-> dbTeamName]
    /\ utilRes' = [out |-> formatTeamNameForDisplay(dbTeamName),
                   back |-> BackToStorage(formatTeamNameForDisplay(dbTeamName))]
    /\ UNCHANGED callVars

\* a direct caller converts a display spelling of team n and converts the
\* result back
StoreTeam(n, csvTeamName) ==
    /\ util = "none"
    /\ util' = "formatTeamNameForDatabase"
    /\ utilArg' = [n |-> n, name |-> csvTeamName]
    /\ utilRes' = [out |-> formatTeamNameForDatabase(csvTeamName),
                   back |-> BackToDisplay(formatTeamNameForDatabase(csvTeamName))]
    /\ UNCHANGED callVars

\* the characters of a text written without separators
Chars(str) ==
    CASE str = "constructor" -> <<"c","o","n","s","t","r","u","c","t","o","r">>
      [] str = "__proto__" -> <<"_","_","p","r","o","t","o","_","_">>
      [] str = "garbage" -> <<"g","a","r","b","a","g","e">>
      [] str = "Mai" -> <<"M","a","i">>
      [] str = "2025" -> <<"2","0","2","5">>
      [] str = "25" -> <<"2","5">>
      [] str = "20255" -> <<"2","0","2","5","5">>
      [] str = "2025051" -> <<"2","0","2","5","0","5","1">>
      [] str = "2025-05" -> <<"2","0","2","5","-","0","5">>

\* month name i with its first letter in upper case, as in "May 2025"
Capitalized(i) == <<ToUpperChar(MonthNames[i][1])>> \o Tail(MonthNames[i])

\* period arguments: six digits, month and year in several spellings, and
\* texts of neither form
PeriodArgs ==
    {May2025, April2025, Chars("20255"), Chars("2025051"), Chars("2025-05"),
     <<" ">> \o May2025, <<>>, Chars("garbage"), Chars("Mai") \o <<" ">> \o Chars("2025"),
     Chars("constructor") \o <<" ">> \o Chars("2025"),
     Chars("__proto__") \o <<" ">> \o Chars("2025"),
     Capitalized(5) \o <<" ">> \o Chars("25"),
     Capitalized(5) \o Chars("2025"),
     Capitalized(5) \o <<" ">> \o Chars("2025") \o <<" ">> \o Chars("25")}
    \cup {Capitalized(i) \o <<" ">> \o Chars("2025") : i \in 1..12}
    \cup {MonthNames[i] \o <<" ">> \o Chars("2025") : i \in 1..12}
    \cup {ToUpperCase(MonthNames[i]) \o <<" ", " ">> \o Chars("2025") : i \in 1..12}
    \cup {<<" ">> \o Capitalized(i) \o <<" ">> \o Chars("2025") \o <<" ">> : i \in 1..12}

\* a direct caller converts a period while the system clock shows clock
ConvertPeriod(p, clock) ==
    /\ util = "none"
    /\ util' = "convertPeriodToCode"
    /\ utilArg' = [period |-> p, clock |-> clock]
    /\ utilRes' = convertPeriodToCode(p, clock)
    /\ UNCHANGED callVars

\* texts on the two sides of the hyphen of a raw employee name
InitialsTexts == {THN, ToLowerCase(THN), <<" ","a","b"," ">>, <<>>, <<" ">>}
FullNameTexts ==
    {<<"T","h","o","m","a","s"," ","N","i","s","s","e","n">>,
     <<"t","h","o","m","a","s"," ","N","I","S","S","E","N">>,
     <<"A","N","N","A"," "," ","b","o">>,
     <<"a","n","n","e","-","m","a","r","i","e"," ","b","o">>,
     <<"x">>, <<>>, <<" ">>}

\* raw employee names: the two texts joined by ' - ', by '-' or by nothing
RawNames ==
    {a \o sep \o b :
        a \in InitialsTexts, sep \in {<<" ","-"," ">>, <<"-">>, <<>>}, b \in FullNameTexts}

\* a direct caller builds the employee mapping of a raw name
MapEmployee(databaseName) ==
    /\ util = "none"
    /\ util' = "createEmployeeMappingFromDatabase"
    /\ utilArg' = databaseName
    /\ utilRes' = createEmployeeMappingFromDatabase(databaseName)
    /\ UNCHANGED callVars

June2025 == <<"2","0","2","5","0","6">>

\* texts of a monthly cell: blank, a number, digits followed by letters, a
\* negative number, letters, a hexadecimal number, a padded number, a decimal
CellTexts ==
    {<<>>, <<"1","0","0">>, <<"1","2","a","b","c">>, <<"-","5">>, <<"a","b","c">>,
     <<"0","x","1","F">>, <<" ","7"," ">>, <<"1",".","5">>}

\* the monthly cells of a data line: none, one, two (as many as the header
\* has monthly columns) or three
MonthlyCells == UNION {[1..n -> CellTexts] : n \in 0..3}

\* a data line of task T9 of employee ABC with the given monthly cells
LineOfT9(cells) == <<CSTIII, <<"D","e","v">>, ABC, <<"T","9">>>> \o cells

\* a well-formed data line of task T1 of employee THN
LineOfT1 == <<CSTIII, <<"D","e","v">>, THN, <<"T","1">>, <<"1","0","0">>, <<"8","0">> >>

ProcessedFrom(rawData) ==
    IF rawData.ok THEN Ok(processBudgetData(rawData.val)) ELSE rawData

\* a direct caller reads and processes the budget file, and asks for the
\* budget of a period
ReadBudget(file, p) ==
    /\ util = "none"
    /\ util' = "getBudgetDataForPeriod"
    /\ utilArg' = [file |-> file, period |-> p]
    /\ utilRes' = [processed |-> ProcessedFrom(readBudget2025(file)),
                   scoped |-> getBudgetDataForPeriod(file, p, Undefined, StartClock)]
    /\ UNCHANGED callVars

\* header names of the two columns after TaskID: months of 2024, 2025 and
\* 2026, the bare year, and a column that is no month
Dec2024 == <<"2","0","2","4","1","2">>
Jan2026 == <<"2","0","2","6","0","1">>
HeaderTexts == {Dec2024, May2025, June2025, Jan2026, <<"2","0","2","5">>,
                <<"N","o","t","e","s">>}

\* the budget file with one data line and the given names for its last two
\* columns
FileWithHeaders(h1, h2) ==
    [CsvFile(TRUE, TRUE, <<LineOfT1>>) EXCEPT
        !.headers = SubSeq(CsvHeaders, 1, 4) \o <<h1, h2>>]

\* billed hours around the thresholds, for a budget of 100 hours
BilledValues == {79, 80, 84, 85, 86, 89, 90, 91, 100, 109, 110, 111, 114, 115, 116,
                 119, 120, 121}

\* the budget of May 2025: 100 hours for THN and 100 hours for ABC
BudgetOfHundred ==
    getBudgetDataForPeriod(
        CsvFile(TRUE, TRUE, <<LineOfT1, LineOfT9(<<<<"1","0","0">>, <<"9","0">>>>)>>),
        May2025, Undefined, StartClock).val

\* the tool runs on an analysis that has succeeded with the given recordset
RunTool(recordset) ==
    /\ util = "none"
    /\ util' = "getExecutiveSummary"
    /\ utilArg' = recordset
    /\ utilRes' = execute(May2025, Undefined, Fulfilled(Analyse(recordset, BudgetOfHundred)))
    /\ UNCHANGED callVars

UtilNext ==
    \/ \E history \in Histories, other \in OtherEntries :
          RunQuery(RevisionsOf(history) \cup other, May2025)
    \/ \E n \in 0..MaxTeamNumber : \E s \in StorageSpellings(n) : ShowTeam(n, s)
    \/ \E n \in 0..MaxTeamNumber : \E s \in DisplaySpellings(n) : StoreTeam(n, s)
    \/ \E p \in PeriodArgs, clock \in LaterClocks : ConvertPeriod(p, clock)
    \/ \E databaseName \in RawNames : MapEmployee(databaseName)
    \/ \E cells \in MonthlyCells, first \in {<<>>, <<LineOfT1>>}, p \in {May2025, June2025} :
          ReadBudget(CsvFile(TRUE, TRUE, first \o <<LineOfT9(cells)>>), p)
    \/ \E h1 \in HeaderTexts, p \in {Dec2024, May2025, Jan2026} :
          \E h2 \in HeaderTexts \ {h1} : ReadBudget(FileWithHeaders(h1, h2), p)
    \/ \E b1 \in BilledValues :
          \/ RunTool(<<DbRow(NameTHN, CST3, b1)>>)
          \/ \E b2 \in BilledValues, niv1 \in {CST3, CST4} :
                RunTool(<<DbRow(NameTHN, CST3, b1), DbRow(NameABC, niv1, b2)>>)

UtilSpec == Init /\ [][UtilNext]_vars

----------------------------------------------------------------------------
(* Vocabulary of the properties *)

\* every continuation and I/O completion of the invocation has run
Finished == pc = "running" /\ dbPc = "done" /\ reconcile.state # "pending"

\* getExecutiveSummaryAnalysis has returned an ExecutiveSummary
Succeeded == reconcile.state = "fulfilled"

RECURSIVE SumAt(_, _, _)
\* sum of seq[i][field] over the indices i in I
SumAt(seq, I, field) ==
    IF I = {} THEN 0
    ELSE LET i == CHOOSE x \in I : TRUE
         IN  seq[i][field] + SumAt(seq, I \ {i}, field)

RECURSIVE SumOfCounts(_, _)
SumOfCounts(seq, I) ==
    IF I = {} THEN 0
    ELSE LET i == CHOOSE x \in I : TRUE
         IN  seq[i].employeeCount + SumOfCounts(seq, I \ {i})

\* x is the exact quotient n / d times 100
IsPercentOf(x, n, d) == x.kind = "fin" /\ d # 0 /\ x.num * d = n * 100 * x.den

\* the actuals record's initials are those of some record of the budget set
HasBudget(r, budgetData) ==
    /\ extractInitials(r.EmployeeName).ok
    /\ \E i \in 1..Len(budgetData) :
          budgetData[i].employee = extractInitials(r.EmployeeName).val

\* the actuals record has well-formed initials that no budget record carries
JoinMiss(r, budgetData) ==
    /\ extractInitials(r.EmployeeName).ok
    /\ \A i \in 1..Len(budgetData) :
          budgetData[i].employee # extractInitials(r.EmployeeName).val

\* the raw name or the team-storage identifier of the record cannot be parsed
Malformed(r) ==
    \/ ~extractInitials(r.EmployeeName).ok
    \/ ~formatTeamNameForDisplay(r.EmployeeID_EmployeeNiv1).ok

----------------------------------------------------------------------------
(* C1 *)

\* C1 as stated: every entry of employeeAnalysis has variance = billedHours -
\* budgetedHours and variancePercentage = variance / budgetedHours * 100,
\* whatever budgetedHours is.
C1_AsStated ==
    Succeeded =>
        \A i \in 1..Len(reconcile.value.employeeAnalysis) :
            LET e == reconcile.value.employeeAnalysis[i]
            IN  /\ e.variance = e.billedHours - e.budgetedHours
                /\ IsPercentOf(e.variancePercentage, e.variance, e.budgetedHours)

\* C1 amended: every entry of employeeAnalysis comes from an actuals record
\* and a budget record with the same initials, has variance = billedHours -
\* budgetedHours, and has variancePercentage = variance / budgetedHours * 100
\* when budgetedHours > 0 and variancePercentage = 0 otherwise.
C1_VarianceOfMatched ==
    Succeeded =>
        \A i \in 1..Len(reconcile.value.employeeAnalysis) :
            LET e == reconcile.value.employeeAnalysis[i]
            IN  /\ \E j \in 1..Len(actuals.value), k \in 1..Len(budget.value) :
                      /\ actuals.value[j].EmployeeName = e.fullName
                      /\ actuals.value[j].BillableHours = e.billedHours
                      /\ budget.value[k].employee = e.initials
                      /\ budget.value[k].totalHours = e.budgetedHours
                /\ e.variance = e.billedHours - e.budgetedHours
                /\ e.budgetedHours > 0 =>
                      IsPercentOf(e.variancePercentage, e.variance, e.budgetedHours)
                /\ e.budgetedHours <= 0 => e.variancePercentage = Zero

\* budgeted 100 and billed 120 give variance 20 and variancePercentage 20
C1_Witness ==
    /\ Succeeded
    /\ \E i \in 1..Len(reconcile.value.employeeAnalysis) :
          LET e == reconcile.value.employeeAnalysis[i]
          IN  /\ e.budgetedHours = 100 /\ e.billedHours = 120
              /\ e.variance = 20
              /\ e.variancePercentage = [kind |-> "fin", num |-> 20, den |-> 1]

----------------------------------------------------------------------------
(* C2 *)

\* C2: each teamSummary entry holds the sums of budgetedHours, billedHours and
\* variance and the count of exactly the employeeAnalysis entries of that team,
\* every entry's team has one teamSummary entry, and the top-level totals are
\* the sums over all entries, hence over all teams.
C2_TeamSumsMatchEntries ==
    Succeeded =>
        LET ea == reconcile.value.employeeAnalysis
            ts == reconcile.value.teamSummary
            Of(name) == {i \in 1..Len(ea) : ea[i].team = name}
        IN  /\ \A k \in 1..Len(ts) :
                  /\ ts[k].budgeted = SumAt(ea, Of(ts[k].team), "budgetedHours")
                  /\ ts[k].billed = SumAt(ea, Of(ts[k].team), "billedHours")
                  /\ ts[k].variance = SumAt(ea, Of(ts[k].team), "variance")
                  /\ ts[k].employeeCount = Cardinality(Of(ts[k].team))
                  /\ ts[k].employeeCount > 0
                  /\ \A m \in 1..Len(ts) : ts[m].team = ts[k].team => m = k
            /\ \A i \in 1..Len(ea) : \E k \in 1..Len(ts) : ts[k].team = ea[i].team
            /\ reconcile.value.totalBudgeted = SumAt(ea, 1..Len(ea), "budgetedHours")
            /\ reconcile.value.totalBilled = SumAt(ea, 1..Len(ea), "billedHours")
            /\ reconcile.value.totalBudgeted = SumAt(ts, 1..Len(ts), "budgeted")
            /\ reconcile.value.totalBilled = SumAt(ts, 1..Len(ts), "billed")
            /\ SumOfCounts(ts, 1..Len(ts)) = Len(ea)

\* (100/110) and (200/180) on one team give 300, 290, -10, 2
C2_Witness ==
    /\ Succeeded
    /\ Len(reconcile.value.employeeAnalysis) = 2
    /\ reconcile.value.teamSummary =
          <<[team |-> CSTIII, budgeted |-> 300, billed |-> 290,
             variance |-> -10, employeeCount |-> 2]>>
    /\ reconcile.value.totalBudgeted = 300
    /\ reconcile.value.totalBilled = 290

----------------------------------------------------------------------------
(* C3 *)

\* C3: no initials value occurs in two entries of employeeAnalysis.
C3_OneEntryPerEmployee ==
    Succeeded =>
        \A i, j \in 1..Len(reconcile.value.employeeAnalysis) :
            reconcile.value.employeeAnalysis[i].initials
                = reconcile.value.employeeAnalysis[j].initials => i = j

----------------------------------------------------------------------------
(* C4 *)

\* C4: when both fetches succeed the analysis succeeds; an actuals record whose
\* initials match no budget record has no entry and its hours are in no sum,
\* and every record that has a budget record and a well-formed team has its
\* entry.
C4_JoinMissIsDropped ==
    (Finished /\ actuals.state = "fulfilled" /\ budget.state = "fulfilled") =>
        /\ Succeeded
        /\ LET ea == reconcile.value.employeeAnalysis
               db == actuals.value
               kept == {j \in 1..Len(db) : HasBudget(db[j], budget.value) /\ ~Malformed(db[j])}
           IN  /\ \A j \in 1..Len(db) :
                     JoinMiss(db[j], budget.value) =>
                        \A i \in 1..Len(ea) :
                            ea[i].initials # extractInitials(db[j].EmployeeName).val
               /\ \A j \in kept :
                     \E i \in 1..Len(ea) :
                        /\ ea[i].fullName = db[j].EmployeeName
                        /\ ea[i].billedHours = db[j].BillableHours
                        /\ ea[i].team = formatTeamNameForDisplay(db[j].EmployeeID_EmployeeNiv1).val
               /\ Len(ea) = Cardinality(kept)
               /\ reconcile.value.totalBilled = SumAt(db, kept, "BillableHours")

\* one actuals employee has no budget record, another one is matched
C4_Witness ==
    /\ Finished /\ Succeeded
    /\ \E j \in 1..Len(actuals.value) : JoinMiss(actuals.value[j], budget.value)
    /\ Len(reconcile.value.employeeAnalysis) = 1
    /\ Len(actuals.value) = 2

----------------------------------------------------------------------------
(* C5 *)

\* C5: every ratio is a finite number, and is 0 when its denominator is 0:
\* variancePercentage of each entry (over budgetedHours), utilizationRate (over
\* totalBudgeted), and the tool's overall and per-team variance percentages
\* (over totalBudgeted and the team's budgeted hours); a tool result is
\* returned whenever the analysis succeeded.
C5_RatiosAreGuarded ==
    Succeeded =>
        /\ \A i \in 1..Len(reconcile.value.employeeAnalysis) :
              LET e == reconcile.value.employeeAnalysis[i]
              IN  /\ IsFinite(e.variancePercentage)
                  /\ e.budgetedHours = 0 => e.variancePercentage = Zero
        /\ IsFinite(reconcile.value.utilizationRate)
        /\ reconcile.value.totalBudgeted = 0 => reconcile.value.utilizationRate = Zero
        /\ caller = "tool" =>
              /\ toolResult.returned
              /\ IsFinite(toolResult.value.budgetVariance)
              /\ toolResult.value.totalBudgeted = 0 => toolResult.value.budgetVariance = Zero
              /\ \A k \in 1..Len(toolResult.value.teamSummary) :
                    LET t == toolResult.value.teamSummary[k]
                    IN  /\ IsFinite(teamVariancePercentage(t))
                        /\ t.budgeted = 0 => teamVariancePercentage(t) = Zero
              /\ \A k \in 1..Len(toolResult.value.recommendations) :
                    "pct" \in DOMAIN toolResult.value.recommendations[k] =>
                        IsFinite(toolResult.value.recommendations[k].pct)
              /\ \A k \in 1..Len(toolResult.value.alerts) :
                    "pct" \in DOMAIN toolResult.value.alerts[k] =>
                        IsFinite(toolResult.value.alerts[k].pct)

\* the tool returned a summary whose only entry has budgetedHours 0 and billed
\* hours above 0, so that every denominator is 0 and every numerator is not
C5_Witness ==
    /\ Succeeded /\ caller = "tool" /\ toolResult.returned
    /\ Len(reconcile.value.employeeAnalysis) = 1
    /\ reconcile.value.employeeAnalysis[1].budgetedHours = 0
    /\ reconcile.value.employeeAnalysis[1].billedHours > 0
    /\ reconcile.value.employeeAnalysis[1].variancePercentage = Zero
    /\ toolResult.value.totalBudgeted = 0
    /\ toolResult.value.budgetVariance = Zero
    /\ toolResult.value.utilizationRate = Zero

----------------------------------------------------------------------------
(* C6 *)

\* C6: when both fetches succeed and the actuals set is empty, or the budget
\* set is empty, or no actuals record has the initials of a budget record, the
\* analysis succeeds with employeeAnalysis = [], teamSummary = {}, totals 0 and
\* utilizationRate 0.
C6_EmptySummary ==
    (/\ Finished /\ actuals.state = "fulfilled" /\ budget.state = "fulfilled"
     /\ \/ actuals.value = <<>>
        \/ budget.value = <<>>
        \/ \A j \in 1..Len(actuals.value) : ~HasBudget(actuals.value[j], budget.value))
    => /\ Succeeded
       /\ reconcile.value.employeeAnalysis = <<>>
       /\ reconcile.value.teamSummary = <<>>
       /\ reconcile.value.totalBudgeted = 0
       /\ reconcile.value.totalBilled = 0
       /\ reconcile.value.budgetVariance = 0
       /\ reconcile.value.utilizationRate = Zero

\* both sets are non-empty, no actuals record matches a budget record, and the
\* empty summary has been returned
C6_Witness ==
    /\ Finished /\ Succeeded
    /\ actuals.value # <<>> /\ budget.value # <<>>
    /\ \E j \in 1..Len(actuals.value) : JoinMiss(actuals.value[j], budget.value)
    /\ \A j \in 1..Len(actuals.value) : ~HasBudget(actuals.value[j], budget.value)
    /\ reconcile.value.employeeAnalysis = <<>>
    /\ reconcile.value.utilizationRate = Zero

----------------------------------------------------------------------------
(* C7 *)

\* C7: the period code the actuals query is parameterised with and the period
\* code the budget records are summed for are the same code, for every input
\* period and every timing of the invocation.
C7_SamePeriodCode ==
    (actPeriodCode # Undefined /\ budPeriodCode # Undefined) =>
        actPeriodCode = budPeriodCode

----------------------------------------------------------------------------
(* C8 *)

\* C8: the analysis returns a summary only if both fetches completed
\* successfully; once either fetch has failed the analysis fails, and the tool
\* result then carries neither entries nor team sums.
C8_BothOrNothing ==
    /\ Succeeded =>
          /\ actuals.state = "fulfilled" /\ budget.state = "fulfilled"
          /\ dbPc = "done" /\ budPeriodCode # Undefined
    /\ (reconcile.state # "pending"
            /\ (actuals.state = "rejected" \/ budget.state = "rejected")) =>
          /\ reconcile.state = "rejected"
          /\ reconcile.value = <<>>
          /\ toolResult.returned =>
                /\ "employeeAnalysis" \notin DOMAIN toolResult.value
                /\ "teamSummary" \notin DOMAIN toolResult.value
    /\ (Finished /\ (actuals.state = "rejected" \/ budget.state = "rejected")) =>
          reconcile.state = "rejected"

\* the budget fetch failed, the actuals fetch then completed successfully,
\* and the analysis failed
C8_Witness ==
    /\ Finished
    /\ budget.state = "rejected"
    /\ pending.state = "fulfilled" /\ pending.value # <<>>
    /\ reconcile.state = "rejected"

----------------------------------------------------------------------------
(* C9 *)

\* C9: if any actuals record has a malformed identifier, the analysis fails;
\* the record is not dropped from an otherwise successful result.
C9_MalformedPropagates ==
    (/\ Finished /\ actuals.state = "fulfilled" /\ budget.state = "fulfilled"
     /\ \E j \in 1..Len(actuals.value) : Malformed(actuals.value[j]))
    => reconcile.state = "rejected"

----------------------------------------------------------------------------
(* C10 *)

\* C10: once the analysis has settled the tool has returned a result; after a
\* failed analysis the result carries error = true and an error message; after
\* a successful analysis, all-zero ones included, it carries no error marker.
C10_ErrorMarker ==
    (caller = "tool" /\ reconcile.state # "pending") =>
        /\ toolResult.returned
        /\ reconcile.state = "rejected" =>
              /\ "error" \in DOMAIN toolResult.value
              /\ toolResult.value.error = TRUE
              /\ "errorMessage" \in DOMAIN toolResult.value
              /\ toolResult.value.errorMessage # <<>>
        /\ reconcile.state = "fulfilled" =>
              /\ "error" \notin DOMAIN toolResult.value
              /\ "errorMessage" \notin DOMAIN toolResult.value

\* the tool returned a summary of a period with zero activity: it has zero
\* totals, as the error fallback has, and no error marker
C10_Witness ==
    /\ caller = "tool" /\ toolResult.returned /\ Succeeded
    /\ toolResult.value.totalBudgeted = 0
    /\ toolResult.value.totalBilled = 0
    /\ toolResult.value.employeeAnalysis = <<>>
    /\ "error" \notin DOMAIN toolResult.value

----------------------------------------------------------------------------
(* C11 *)

----------------------------------------------------------------------------
(* C12 *)

\* the newest revision of the time entry r belongs to
IsNewest(r, revisions) ==
    \A q \in revisions : q.entry = r.entry => q.batch <= r.batch

\* the hours the claim counts for an employee and team: those of the newest
\* revision of each entry, if it has positive hours, is billable, is dated in
\* the period and belongs to a recognized team
CountedRevisions(revisions, periodCode, name, niv1) ==
    {r \in revisions :
        /\ IsNewest(r, revisions)
        /\ r.Hours > 0 /\ r.IsBillable /\ r.month = periodCode
        /\ r.EmployeeID_EmployeeNiv1 \in {CST3, CST4, CST5}
        /\ r.EmployeeName = name /\ r.EmployeeID_EmployeeNiv1 = niv1}

RECURSIVE SumHours(_)
SumHours(rows) ==
    IF rows = {} THEN 0
    ELSE LET r == CHOOSE x \in rows : TRUE IN r.Hours + SumHours(rows \ {r})

\* C12: the BillableHours of every row of the recordset is the sum of the
\* hours of the newest revision of each of the employee's time entries whose
\* newest revision has positive hours, is billable, is dated in the period and
\* belongs to a recognized team; older revisions contribute nothing.
C12_NewestRevisionOnly ==
    util = "fetchBilledHoursData" =>
        \A row \in utilRes :
            row.BillableHours =
                SumHours(CountedRevisions(utilArg.revisions, utilArg.periodCode,
                                          row.EmployeeName, row.EmployeeID_EmployeeNiv1))

----------------------------------------------------------------------------
(* C13 *)

\* C13: for every n in 1..20 the canonical storage spelling converts to the
\* canonical display spelling and back to itself, and the canonical display
\* spelling converts to the canonical storage spelling and back to itself; for
\* every n outside 1..20 the conversion of either canonical spelling fails.
C13_CanonicalRoundTrip ==
    /\ (util = "formatTeamNameForDisplay" /\ utilArg.name = storage(utilArg.n)) =>
          IF utilArg.n \in 1..20
          THEN /\ utilRes.out = Ok(display(utilArg.n))
               /\ utilRes.back = Ok(utilArg.name)
          ELSE ~utilRes.out.ok /\ utilRes.out.err # <<>>
    /\ (util = "formatTeamNameForDatabase" /\ utilArg.name = display(utilArg.n)) =>
          IF utilArg.n \in 1..20
          THEN /\ utilRes.out = Ok(storage(utilArg.n))
               /\ utilRes.back = Ok(utilArg.name)
          ELSE ~utilRes.out.ok /\ utilRes.out.err # <<>>

\* 'CST XIV' has been converted to 'CST14' and back
C13_Witness ==
    /\ util = "formatTeamNameForDatabase"
    /\ utilArg.name = <<"C","S","T"," ","X","I","V">>
    /\ utilRes.out = Ok(<<"C","S","T","1","4">>)
    /\ utilRes.back = Ok(utilArg.name)

----------------------------------------------------------------------------
(* C14 *)

\* C14: every spelling a conversion accepts comes back unchanged from the
\* round trip: the second conversion succeeds and returns the input.
C14_LosslessForAccepted ==
    (util \in {"formatTeamNameForDisplay", "formatTeamNameForDatabase"}
        /\ utilRes.out.ok) =>
            utilRes.back = Ok(utilArg.name)

----------------------------------------------------------------------------
(* C15 *)

\* the text is a month name in any case, a run of whitespace and a 4-digit
\* year, possibly surrounded by whitespace
IsMonthAndYear(text, i, year) ==
    /\ Len(year) = 4 /\ AllDigits(year)
    /\ Len(Trim(text)) > Len(MonthNames[i])
    /\ SplitWs(Trim(text)) = <<SubSeq(Trim(text), 1, Len(MonthNames[i])), year>>
    /\ ToLowerCase(SubSeq(Trim(text), 1, Len(MonthNames[i]))) = MonthNames[i]

\* C15: convertPeriodToCode returns a six-digit input unchanged; for a month
\* name and a 4-digit year it returns the year followed by the 2-digit month
\* number; for every other input it returns the code of the current month.
C15_PeriodToCode ==
    util = "convertPeriodToCode" =>
        IF Len(utilArg.period) = 6 /\ AllDigits(utilArg.period)
        THEN utilRes = utilArg.period
        ELSE IF \E i \in 1..12, year \in {Chars("2025")} :
                    IsMonthAndYear(utilArg.period, i, year)
        THEN \E i \in 1..12 :
                /\ IsMonthAndYear(utilArg.period, i, Chars("2025"))
                /\ utilRes = Chars("2025") \o PadStart2(IntToDigits(i))
        ELSE utilRes = IntToDigits(utilArg.clock.year)
                          \o PadStart2(IntToDigits(utilArg.clock.month))

----------------------------------------------------------------------------
(* C16 *)

\* the text before the first hyphen of raw, and the text after it, trimmed
BeforeHyphen(raw) == Trim(SubSeq(raw, 1, IndexOf(raw, "-") - 1))
AfterHyphen(raw) == Trim(SubSeq(raw, IndexOf(raw, "-") + 1, Len(raw)))

\* name is text with the first letter of each word (the letters that start
\* the text or follow a blank) in upper case and the other letters in lower case
IsTitleCaseOf(name, text) ==
    /\ Len(name) = Len(text)
    /\ \A k \in 1..Len(text) :
          name[k] = IF k = 1 \/ text[k - 1] = " "
                    THEN ToUpperChar(text[k]) ELSE ToLowerChar(text[k])

\* C16: for a raw name with a hyphen and non-empty text on both sides of the
\* first hyphen, createEmployeeMappingFromDatabase returns initials = the text
\* before the first hyphen, trimmed and in upper case, and fullName = the text
\* after it, trimmed and with each word capitalized; for a raw name without a
\* hyphen or with an empty side it fails.
C16_EmployeeMapping ==
    util = "createEmployeeMappingFromDatabase" =>
        IF /\ IndexOf(utilArg, "-") # 0
           /\ BeforeHyphen(utilArg) # <<>>
           /\ AfterHyphen(utilArg) # <<>>
        THEN /\ utilRes.ok
             /\ utilRes.val.initials = ToUpperCase(BeforeHyphen(utilArg))
             /\ IsTitleCaseOf(utilRes.val.fullName, AfterHyphen(utilArg))
        ELSE ~utilRes.ok /\ utilRes.err # <<>>

\* 'thn - thomas NISSEN' has given THN and 'Thomas Nissen'
C16_Witness ==
    /\ util = "createEmployeeMappingFromDatabase"
    /\ utilArg = <<"t","h","n"," ","-"," ","t","h","o","m","a","s"," ","N","I","S","S","E","N">>
    /\ utilRes = Ok([initials |-> THN,
                     fullName |-> <<"T","h","o","m","a","s"," ","N","i","s","s","e","n">>])

----------------------------------------------------------------------------
(* C17 - C20 *)

\* the text of field c of a data line, blank when the line is shorter
CellOf(line, c) == IF c <= Len(line) THEN Trim(line[c]) ELSE <<>>

\* the text is a number: a decimal integer with or without a sign, a decimal
\* fraction, or a hexadecimal integer
IsNumeric(text) ==
    \/ text # <<>> /\ AllDigits(text)
    \/ Len(text) >= 2 /\ text[1] \in {"-", "+"} /\ AllDigits(Tail(text))
    \/ \E d \in 2..(Len(text) - 1) :
          /\ text[d] = "."
          /\ AllDigits(SubSeq(text, 1, d - 1)) /\ AllDigits(SubSeq(text, d + 1, Len(text)))
    \/ /\ Len(text) >= 3 /\ text[1] = "0" /\ text[2] \in {"x", "X"}
       /\ \A k \in 3..Len(text) : IsHexDigit(text[k])

\* the columns of the header that hold monthly hours
MonthlyColumns(file) == {c \in 1..Len(file.headers) : StartsWith2025(file.headers[c])}

\* C17: the budget file is processed without failure, every monthly cell that
\* is blank or is not a number gives 0 hours, and a record whose monthly cells
\* are all blank has totalHours 0.
C17_NonNumericIsZero ==
    util = "getBudgetDataForPeriod" =>
        /\ utilRes.processed.ok
        /\ Len(utilRes.processed.val) = Len(utilArg.file.lines)
        /\ \A i \in 1..Len(utilArg.file.lines) :
              /\ \A c \in MonthlyColumns(utilArg.file) :
                    ~IsNumeric(CellOf(utilArg.file.lines[i], c)) =>
                        utilRes.processed.val[i].monthlyHours[utilArg.file.headers[c]] = 0
              /\ (\A c \in MonthlyColumns(utilArg.file) :
                        CellOf(utilArg.file.lines[i], c) = <<>>) =>
                    utilRes.processed.val[i].totalHours = 0

\* C18: every record of the processed budget has monthlyHours >= 0 for every
\* period and totalHours >= 0.
C18_HoursNonNegative ==
    (util = "getBudgetDataForPeriod" /\ utilRes.processed.ok) =>
        \A i \in 1..Len(utilRes.processed.val) :
            /\ \A key \in DOMAIN utilRes.processed.val[i].monthlyHours :
                  utilRes.processed.val[i].monthlyHours[key] >= 0
            /\ utilRes.processed.val[i].totalHours >= 0

\* C19: a data line whose cell in the column of the requested period is blank
\* or missing has no record in the set returned for the period.
C19_MissingValueExcluded ==
    (util = "getBudgetDataForPeriod" /\ utilRes.scoped.ok) =>
        \A i \in 1..Len(utilArg.file.lines) :
            (\E c \in MonthlyColumns(utilArg.file) :
                /\ utilArg.file.headers[c] = utilArg.period
                /\ CellOf(utilArg.file.lines[i], c) = <<>>)
            => \A k \in 1..Len(utilRes.scoped.val) :
                  utilRes.scoped.val[k].taskId # utilArg.file.lines[i][4]

\* C20: when a data line has another number of fields than the header, the
\* read fails and returns no records.
C20_InconsistentRowFails ==
    (util = "getBudgetDataForPeriod"
        /\ \E i \in 1..Len(utilArg.file.lines) :
              Len(utilArg.file.lines[i]) # Len(utilArg.file.headers))
    => ~utilRes.processed.ok /\ ~utilRes.scoped.ok

----------------------------------------------------------------------------
(* C21 *)

\* C21: with a team filter F the budget set is the unfiltered budget set of
\* the period restricted to the records whose team field equals F; the period
\* code of the actuals query does not depend on the filter; and every entry,
\* hence every teamSummary key, carries the display form of the team identifier
\* of its own actuals record, whatever the filter.
C21_FilterNarrowsBudgetOnly ==
    /\ (budget.state = "fulfilled" /\ teamFilter # Undefined) =>
          /\ \A k \in 1..Len(budget.value) : budget.value[k].team = teamFilter
          /\ budget.value =
                SelectSeq(getBudgetDataForPeriod(csv, budPeriodCode, Undefined, StartClock).val,
                          LAMBDA item : item.team = teamFilter)
    /\ pc # "idle" => actPeriodCode = convertPeriodToCode(period, StartClock)
    /\ Succeeded =>
          /\ \A i \in 1..Len(reconcile.value.employeeAnalysis) :
                \E j \in 1..Len(actuals.value) :
                   /\ actuals.value[j].EmployeeName
                         = reconcile.value.employeeAnalysis[i].fullName
                   /\ actuals.value[j].BillableHours
                         = reconcile.value.employeeAnalysis[i].billedHours
                   /\ formatTeamNameForDisplay(actuals.value[j].EmployeeID_EmployeeNiv1)
                         = Ok(reconcile.value.employeeAnalysis[i].team)
          /\ \A k \in 1..Len(reconcile.value.teamSummary) :
                \E j \in 1..Len(actuals.value) :
                   formatTeamNameForDisplay(actuals.value[j].EmployeeID_EmployeeNiv1)
                      = Ok(reconcile.value.teamSummary[k].team)

\* the result for filter 'CST III' holds an employee and a team key of 'CST IV'
C21_Witness ==
    /\ Succeeded /\ teamFilter = CSTIII
    /\ \E i \in 1..Len(reconcile.value.employeeAnalysis) :
          reconcile.value.employeeAnalysis[i].team = CSTIV
    /\ \E k \in 1..Len(reconcile.value.teamSummary) :
          reconcile.value.teamSummary[k].team = CSTIV

----------------------------------------------------------------------------
(* C22 *)

\* the magnitude of the number x is above the integer n
Exceeds(x, n) == x.kind = "fin" /\ (x.num > n * x.den \/ -x.num > n * x.den)

\* the recommendations of a tool result that are of one of the kinds
RecsOfKind(v, kinds) ==
    {k \in 1..Len(v.recommendations) : v.recommendations[k].kind \in kinds}

\* the thresholds of C22 hold in the tool result v
ThresholdsHold(v) ==
        LET high == {i \in 1..Len(v.employeeAnalysis) :
                        Exceeds(v.employeeAnalysis[i].variancePercentage, 20)}
        IN  /\ Cardinality(RecsOfKind(v, {"total_over", "total_under"}))
                  = IF Exceeds(v.budgetVariance, 10) THEN 1 ELSE 0
            /\ Len(v.alerts) = IF Exceeds(v.budgetVariance, 10) THEN 1 ELSE 0
            /\ \A t \in 1..Len(v.teamSummary) :
                  Cardinality({k \in RecsOfKind(v, {"team_over", "team_under"}) :
                                  v.recommendations[k].team = v.teamSummary[t].team})
                     = IF /\ v.teamSummary[t].budgeted > 0
                          /\ \/ v.teamSummary[t].variance * 100 > 15 * v.teamSummary[t].budgeted
                             \/ -(v.teamSummary[t].variance * 100) > 15 * v.teamSummary[t].budgeted
                       THEN 1 ELSE 0
            /\ Cardinality(RecsOfKind(v, {"review_employees"}))
                  = IF high = {} THEN 0 ELSE 1
            /\ \A k \in RecsOfKind(v, {"review_employees"}) :
                  v.recommendations[k].count = Cardinality(high)

\* C22: the tool result holds one summary-level recommendation and one alert
\* if the magnitude of the overall variance percentage is above 10 and none
\* otherwise; one team-level recommendation for a team if the magnitude of the
\* team's variance percentage is above 15 and none otherwise; and one 'review
\* N employees' recommendation if N >= 1 entries have a variancePercentage of
\* magnitude above 20, N being their number, and none otherwise.
C22_StrictThresholds ==
    /\ (toolResult.returned /\ Succeeded) => ThresholdsHold(toolResult.value)
    /\ util = "getExecutiveSummary" => ThresholdsHold(utilRes)

\* an overall variance percentage of exactly -10 has produced no summary-level
\* recommendation and no alert, and an employee at exactly -20 no review, while
\* the employee's team, 20 percent under its budget, has its recommendation
C22_Witness ==
    /\ util = "getExecutiveSummary"
    /\ utilRes.budgetVariance = [kind |-> "fin", num |-> -10, den |-> 1]
    /\ utilRes.alerts = <<>>
    /\ \E i \in 1..Len(utilRes.employeeAnalysis) :
          utilRes.employeeAnalysis[i].variancePercentage = [kind |-> "fin", num |-> -20, den |-> 1]
    /\ RecsOfKind(utilRes, {"review_employees", "total_over", "total_under"}) = {}
    /\ RecsOfKind(utilRes, {"team_under"}) # {}

----------------------------------------------------------------------------
(* C23: the tool's copy of the summary *)

\* C23: a successful tool result carries the summary of the analysis
\* unchanged: totalBudgeted, totalBilled, utilizationRate, employeeAnalysis and
\* teamSummary are those of the analysis, and budgetVariance is totalBilled
\* minus totalBudgeted, in hours.
C23_SummaryUnchanged ==
    (toolResult.returned /\ Succeeded) =>
        LET v == toolResult.value
            a == reconcile.value
        IN  /\ v.totalBudgeted = a.totalBudgeted
            /\ v.totalBilled = a.totalBilled
            /\ v.utilizationRate = a.utilizationRate
            /\ v.employeeAnalysis = a.employeeAnalysis
            /\ v.teamSummary = a.teamSummary
            /\ v.budgetVariance.kind = "fin"
            /\ v.budgetVariance.num = (a.totalBilled - a.totalBudgeted) * v.budgetVariance.den

----------------------------------------------------------------------------
(* C24: the three failures of the actuals reader *)

----------------------------------------------------------------------------
(* C25: totalHours of a full-year record and of a record scoped to a period *)

\* the hours of a month in a record's monthlyHours, 0 for a month it lacks
HoursIn(monthlyHours, month) ==
    IF month \in DOMAIN monthlyHours THEN monthlyHours[month] ELSE 0

\* C25: every record of the full-year read has the sum of its monthly values
\* as totalHours; every record of the read scoped to a period is a full-year
\* record with totalHours replaced by its monthlyHours of that period, its
\* monthlyHours, team, description, employee and taskId being unchanged.
C25_TotalHours ==
    /\ (util = "getBudgetDataForPeriod" /\ utilRes.processed.ok) =>
          \A i \in 1..Len(utilRes.processed.val) :
             LET item == utilRes.processed.val[i]
             IN  /\ DOMAIN item.monthlyHours \subseteq {utilArg.file.headers[5], utilArg.file.headers[6]}
                 /\ item.totalHours = HoursIn(item.monthlyHours, utilArg.file.headers[5])
                                        + HoursIn(item.monthlyHours, utilArg.file.headers[6])
    /\ (util = "getBudgetDataForPeriod" /\ utilRes.scoped.ok) =>
          /\ utilRes.processed.ok
          /\ \A j \in 1..Len(utilRes.scoped.val) :
                LET item == utilRes.scoped.val[j]
                IN  /\ utilArg.period \in DOMAIN item.monthlyHours
                    /\ item.totalHours = item.monthlyHours[utilArg.period]
                    /\ \E i \in 1..Len(utilRes.processed.val) :
                          /\ item.monthlyHours = utilRes.processed.val[i].monthlyHours
                          /\ item.team = utilRes.processed.val[i].team
                          /\ item.description = utilRes.processed.val[i].description
                          /\ item.employee = utilRes.processed.val[i].employee
                          /\ item.taskId = utilRes.processed.val[i].taskId

\* the record of task T1 has 180 hours in the full-year read and 80 hours in
\* the read scoped to June 2025, with both months in its monthlyHours
C25_Witness ==
    /\ util = "getBudgetDataForPeriod" /\ utilArg.period = June2025
    /\ utilRes.processed.ok /\ utilRes.scoped.ok
    /\ \E i \in 1..Len(utilRes.processed.val), j \in 1..Len(utilRes.scoped.val) :
          /\ utilRes.processed.val[i].taskId = <<"T","1">>
          /\ utilRes.processed.val[i].totalHours = 180
          /\ utilRes.scoped.val[j].taskId = <<"T","1">>
          /\ utilRes.scoped.val[j].totalHours = 80
          /\ utilRes.scoped.val[j].monthlyHours = utilRes.processed.val[i].monthlyHours

----------------------------------------------------------------------------
(* C26: the columns that hold monthly hours *)

\* the header name begins with the four digits of a year
StartsWithYear(key) == Len(key) >= 4 /\ \A k \in 1..4 : IsDigit(key[k])

\* C26: in every record of the processed budget the keys of monthlyHours are
\* the header names that begin with a four-digit year, of whatever year, and
\* every such column is part of totalHours.
C26_AnyYearIsMonthly ==
    (util = "getBudgetDataForPeriod" /\ utilRes.processed.ok) =>
        \A i \in 1..Len(utilRes.processed.val) :
            LET item == utilRes.processed.val[i]
                years == {c \in 1..Len(utilArg.file.headers) :
                             StartsWithYear(utilArg.file.headers[c])}
            IN  /\ DOMAIN item.monthlyHours = {utilArg.file.headers[c] : c \in years}
                /\ item.totalHours =
                      SumOver([c \in years |-> HoursIn(item.monthlyHours, utilArg.file.headers[c])],
                              years)

----------------------------------------------------------------------------
(* C27: the identity carried by an entry *)

\* C27: every entry of employeeAnalysis comes from an actuals record whose raw
\* name gives its identity: initials are the text before the first hyphen,
\* trimmed and in upper case, fullName is the text after it, trimmed and with
\* each word capitalized, and some budget record has exactly these initials
\* as its employee.
C27_CanonicalIdentity ==
    (Succeeded /\ actuals.state = "fulfilled" /\ budget.state = "fulfilled") =>
        \A i \in 1..Len(reconcile.value.employeeAnalysis) :
            LET entry == reconcile.value.employeeAnalysis[i]
            IN  \E j \in 1..Len(actuals.value) :
                    LET raw == actuals.value[j].EmployeeName
                    IN  /\ entry.billedHours = actuals.value[j].BillableHours
                        /\ IndexOf(raw, "-") # 0
                        /\ entry.initials = ToUpperCase(BeforeHyphen(raw))
                        /\ IsTitleCaseOf(entry.fullName, AfterHyphen(raw))
                        /\ \E b \in 1..Len(budget.value) :
                              budget.value[b].employee = entry.initials

----------------------------------------------------------------------------
(* C29: several budget records of one employee *)

\* C29: the budgetedHours of an entry are the period hours of the first
\* record of the budget set, in file order, that carries the entry's
\* initials; the hours of later records of these initials are in no total:
\* totalBudgeted and the teams' budgeted hours are sums of the entries'
\* budgetedHours.
C29_FirstBudgetRecordOnly ==
    (Succeeded /\ budget.state = "fulfilled") =>
        LET ea == reconcile.value.employeeAnalysis
            ts == reconcile.value.teamSummary
        IN  /\ \A i \in 1..Len(ea) :
                  \E b \in 1..Len(budget.value) :
                      /\ budget.value[b].employee = ea[i].initials
                      /\ \A a \in 1..(b - 1) : budget.value[a].employee # ea[i].initials
                      /\ ea[i].budgetedHours = budget.value[b].totalHours
            /\ reconcile.value.totalBudgeted = SumAt(ea, 1..Len(ea), "budgetedHours")
            /\ \A t \in 1..Len(ts) :
                  ts[t].budgeted =
                      SumAt(ea, {i \in 1..Len(ea) : ea[i].team = ts[t].team}, "budgetedHours")

\* the budget set holds two records of THN, of 0 and then of 100 hours, and
\* the entry of THN has 0 budgeted hours, as has the whole summary
C29_Witness ==
    /\ Succeeded /\ budget.state = "fulfilled"
    /\ Len(budget.value) = 2
    /\ budget.value[1].employee = THN /\ budget.value[1].totalHours = 0
    /\ budget.value[2].employee = THN /\ budget.value[2].totalHours = 100
    /\ Len(reconcile.value.employeeAnalysis) = 1
    /\ reconcile.value.employeeAnalysis[1].initials = THN
    /\ reconcile.value.employeeAnalysis[1].budgetedHours = 0
    /\ reconcile.value.totalBudgeted = 0

----------------------------------------------------------------------------
(* C30: the team argument of the tool *)

----------------------------------------------------------------------------
(* C28: the connection of an analysis that has already failed *)

\* the budget read has failed and the analysis with it, while
\* fetchBilledHoursData is still waiting for the driver
FailedMidFlight ==
    /\ budget.state = "rejected" /\ reconcile.state = "rejected"
    /\ dbPc \in {"connect", "query", "close"}

\* what fetchBilledHoursData delivers, settled before close() is called
OutcomeBeforeClose == IF opens = 0 THEN Rejected(ConnectError) ELSE pending

====
